---- MODULE Spec2Model ----
(***************************************************************************)
(* AdaptiveRLEngine (src/adaptive_rl_engine.py): the feedback-driven       *)
(* policy learner.  The state is the engine object's fields plus the two   *)
(* files it appends to; one action per public method.                      *)
(***************************************************************************)
EXTENDS Integers, Sequences, FiniteSets, TLC

VARIABLES
    q_table,               \* state -> (action -> value)          self.q_table
    state_action_counts,   \* state -> (action -> visit count)    self.state_action_counts
    recent_interactions,   \* deque(maxlen) of interaction dicts  self.recent_interactions
    intent_success_rates,  \* intent -> list of bool              self.intent_success_rates
    user_preferences,      \* user -> (intent -> list of ratings) self.user_preferences
    learning_rate,         \* self.learning_rate
    epsilon,               \* self.epsilon
    feedback_file,         \* contents of user_feedback.json (None: no such file)
    interactions_file,     \* lines of interactions.jsonl
    now,                   \* the wall clock datetime.now() reads, as a tick count
    hour,                  \* datetime.now().hour
    reward,                \* the last reward update_q_value / calculate_reward produced
    retval,                \* what the last call returned to its caller
    logged,                \* the logger records the last call emitted
    q_order,               \* state -> the actions of q_table[state] in insertion order
    model_file,            \* contents of rl_model.pkl (None: no such file)
    harness,               \* the restart comparison: script, checkpoint, reference run
    threads,               \* the calls in progress on concurrent threads
    running,               \* whether the process is up
    last_save              \* model_data as the last completed save_model wrote it

vars ==
    <<q_table, state_action_counts, recent_interactions, intent_success_rates,
      user_preferences, learning_rate, epsilon, feedback_file, interactions_file,
      now, hour, reward, retval, logged, q_order, model_file, harness, threads,
      running, last_save>>

\* The engine's learned state and its ledger: everything a feedback may touch.
engine ==
    <<q_table, state_action_counts, recent_interactions, intent_success_rates,
      user_preferences, learning_rate, epsilon, feedback_file, interactions_file,
      q_order, model_file>>

\* What no method of the engine touches: the bookkeeping of the comparison of
\* runs and of the threads.
aux ==
    <<harness, threads, running, last_save>>

-----------------------------------------------------------------------------
(* Bounds of the model *)

MaxSteps == 3      \* Spec: calls that read the clock (logs and applied feedbacks)
MaxHistory == 11   \* SpecReward: longest success history drawn
MaxVisits == 2     \* SpecReward: largest visit count drawn
Overflow == 2      \* SpecLedger: records logged beyond the buffer's capacity
MaxCalls == 4      \* SpecDecide: calls that read the clock
MaxRecords == 6    \* SpecSnapshot: decisions the scripted session records
MaxPrefix == 1     \* SpecRestart: decisions recorded before the save
MaxOps == 2        \* SpecRestart: operations after the save
MaxSession == 2    \* SpecLoad, SpecCrash, SpecSession: decisions the sessions record
MaxLoaded == 3     \* SpecLoad: outcomes in the success history before a reload
MaxClock == 3      \* SpecClock, SpecRate: decisions the sessions record

-----------------------------------------------------------------------------
(* Python values *)

\* Optional values: None and a present value.
None == <<>>
Some(v) == <<v>>

\* Python floats, as exact fractions [n, d] in lowest terms with d > 0.
RECURSIVE GCD(_, _)
GCD(a, b) ==
    IF b = 0 THEN a ELSE GCD(b, a % b)

Abs(x) ==
    IF x < 0 THEN -x ELSE x

Frac(n, d) ==
    LET g == GCD(Abs(n), d)
    IN  [n |-> n \div g, d |-> d \div g]

\* Sums and products cancel common factors first, so that the intermediate
\* integers stay small.
FAdd(x, y) ==
    LET g == GCD(x.d, y.d)
    IN  Frac(x.n * (y.d \div g) + y.n * (x.d \div g), (x.d \div g) * y.d)

FNeg(x) ==
    [n |-> -x.n, d |-> x.d]

FSub(x, y) ==
    FAdd(x, FNeg(y))

FMul(x, y) ==
    LET g1 == GCD(Abs(x.n), y.d)
        g2 == GCD(Abs(y.n), x.d)
    IN  Frac((x.n \div g1) * (y.n \div g2), (x.d \div g2) * (y.d \div g1))

FLe(x, y) ==
    LET g == GCD(x.d, y.d)
    IN  x.n * (y.d \div g) <= y.n * (x.d \div g)

FMin(x, y) ==
    IF FLe(y, x) /\ ~FLe(x, y) THEN y ELSE x

FMax(x, y) ==
    IF FLe(x, y) /\ ~FLe(y, x) THEN y ELSE x

\* Nested dicts: defaultdict(lambda: defaultdict(...)) as a function on the keys
\* present, of functions on the keys present.
Has2(d, k1, k2) ==
    k1 \in DOMAIN d /\ k2 \in DOMAIN d[k1]

Get2(d, k1, k2, default) ==
    IF Has2(d, k1, k2) THEN d[k1][k2] ELSE default

Put2(d, k1, k2, v) ==
    LET inner == IF k1 \in DOMAIN d THEN d[k1] ELSE <<>>
        inner2 == [k \in (DOMAIN inner) \cup {k2} |-> IF k = k2 THEN v ELSE inner[k]]
    IN  [k \in (DOMAIN d) \cup {k1} |-> IF k = k1 THEN inner2 ELSE d[k]]

Put1(d, k, v) ==
    [x \in (DOMAIN d) \cup {k} |-> IF x = k THEN v ELSE d[x]]

EmptyDict == <<>>

-----------------------------------------------------------------------------
(* Inputs *)

Commands == {"schedule meeting tomorrow at 4pm", "send mail"}
UnknownCommand == "play some music"
Intents == {"calendar_event", "send_email"}
Users == {"default", "alice"}
DefaultUser == "default"
Results == {"done"}
Ratings == 0 .. 6
Hours == {9}
LogWrites == {TRUE}      \* outcomes of the append to interactions.jsonl

\* The characters of each command text.
Chars(command) ==
    CASE command = "schedule meeting tomorrow at 4pm" ->
           <<"s","c","h","e","d","u","l","e"," ","m","e","e","t","i","n","g"," ",
             "t","o","m","o","r","r","o","w"," ","a","t"," ","4","p","m">>
      [] command = "send mail" ->
           <<"s","e","n","d"," ","m","a","i","l">>
      [] command = "send email" ->
           <<"s","e","n","d"," ","e","m","a","i","l">>
      [] command = "play some music" ->
           <<"p","l","a","y"," ","s","o","m","e"," ","m","u","s","i","c">>
      [] command = "" ->
           <<>>
      [] command = "Open Google" ->
           <<"O","p","e","n"," ","G","o","o","g","l","e">>
      [] command = "launch it" ->
           <<"l","a","u","n","c","h"," ","i","t">>
      [] command = "open the app and run it now" ->
           <<"o","p","e","n"," ","t","h","e"," ","a","p","p"," ","a","n","d",
             " ","r","u","n"," ","i","t"," ","n","o","w">>
      [] command = "please find and send the mail to the whole team" ->
           <<"p","l","e","a","s","e"," ","f","i","n","d"," ","a","n","d"," ",
             "s","e","n","d"," ","t","h","e"," ","m","a","i","l"," ","t","o",
             " ","t","h","e"," ","w","h","o","l","e"," ","t","e","a","m">>

-----------------------------------------------------------------------------
(* get_state_features *)

\* The characters str.split() splits on.
IsSpace(ch) ==
    ch \in {" ", "\t", "\n"}

\* len(command.split()): the maximal runs of non-blank characters.
WordCount(cs) ==
    Cardinality({i \in 1 .. Len(cs) : ~IsSpace(cs[i]) /\ (i = 1 \/ IsSpace(cs[i - 1]))})

\* str.lower(), character by character.
Upper == <<"A","B","C","D","E","F","G","H","I","J","K","L","M",
           "N","O","P","Q","R","S","T","U","V","W","X","Y","Z">>
Lowercase == <<"a","b","c","d","e","f","g","h","i","j","k","l","m",
               "n","o","p","q","r","s","t","u","v","w","x","y","z">>

LowerChar(ch) ==
    IF \E k \in 1 .. 26 : Upper[k] = ch
    THEN Lowercase[CHOOSE k \in 1 .. 26 : Upper[k] = ch]
    ELSE ch

Lower(cs) ==
    [i \in 1 .. Len(cs) |-> LowerChar(cs[i])]

\* word in text: substring test.
Contains(text, word) ==
    \E i \in 0 .. (Len(text) - Len(word)) :
        \A j \in 1 .. Len(word) : text[i + j] = word[j]

\* any(word in command.lower() for word in words), on the lowered command.
AnyWord(lowered, words) ==
    \E w \in words : Contains(lowered, w)

CalendarWords ==
    {<<"s","c","h","e","d","u","l","e">>, <<"m","e","e","t","i","n","g">>, <<"e","v","e","n","t">>}
EmailWords ==
    {<<"e","m","a","i","l">>, <<"s","e","n","d">>, <<"m","a","i","l">>}
SearchWords ==
    {<<"s","e","a","r","c","h">>, <<"f","i","n","d">>, <<"g","o","o","g","l","e">>}
AppWords ==
    {<<"o","p","e","n">>, <<"r","u","n">>, <<"l","a","u","n","c","h">>}

LengthFeature(cs) ==
    IF WordCount(cs) <= 3 THEN "short"
    ELSE IF WordCount(cs) <= 7 THEN "medium"
    ELSE "long"

TimeFeature(h) ==
    IF 6 <= h /\ h < 12 THEN "morning"
    ELSE IF 12 <= h /\ h < 18 THEN "afternoon"
    ELSE IF 18 <= h /\ h < 22 THEN "evening"
    ELSE "night"

\* The categories scanned in the opposite order: the last match wins.
TopicFeatures_LastMatch(cs) ==
    LET lowered == Lower(cs)
    IN  IF AnyWord(lowered, AppWords) THEN {"app"}
        ELSE IF AnyWord(lowered, SearchWords) THEN {"search"}
        ELSE IF AnyWord(lowered, EmailWords) THEN {"email"}
        ELSE IF AnyWord(lowered, CalendarWords) THEN {"calendar"}
        ELSE {}

TopicFeatures(cs) ==
    LET lowered == Lower(cs)
    IN  IF AnyWord(lowered, CalendarWords) THEN {"calendar"}
        ELSE IF AnyWord(lowered, EmailWords) THEN {"email"}
        ELSE IF AnyWord(lowered, SearchWords) THEN {"search"}
        ELSE IF AnyWord(lowered, AppWords) THEN {"app"}
        ELSE {}

\* context: None, or a dict with has_datetime / has_recipients.
ContextFeatures(context) ==
    IF context = None THEN {}
    ELSE (IF context[1].has_datetime THEN {"time_specific"} ELSE {})
         \cup (IF context[1].has_recipients THEN {"multi_user"} ELSE {})

\* Every tag, in the order sorted() puts them.
TagOrder ==
    <<"afternoon", "app", "calendar", "email", "evening", "long", "medium",
      "morning", "multi_user", "night", "search", "short", "time_specific">>

RECURSIVE JoinSorted(_, _)
JoinSorted(features, i) ==
    IF i > Len(TagOrder) THEN ""
    ELSE IF TagOrder[i] \in features
         THEN LET rest == JoinSorted(features, i + 1)
              IN  IF rest = "" THEN TagOrder[i] ELSE TagOrder[i] \o "|" \o rest
         ELSE JoinSorted(features, i + 1)

\* The command texts of the model, and the features each text alone decides,
\* computed once per text.
CommandTexts ==
    Commands \cup {UnknownCommand, "send email", "", "Open Google", "launch it",
                   "open the app and run it now",
                   "please find and send the mail to the whole team"}

TextFeatures ==
    [command \in CommandTexts |->
        {LengthFeature(Chars(command))} \cup TopicFeatures(Chars(command))]

get_state_features(command, context, h) ==
    LET features == TextFeatures[command] \cup {TimeFeature(h)}
                    \cup ContextFeatures(context)
    IN  JoinSorted(features, 1)

-----------------------------------------------------------------------------
(* The recent-interaction buffer *)

maxlen == 1000

\* Mutant: a plain list, which never drops an element.
deque_append_Unbounded(dq, x) ==
    Append(dq, x)

\* deque.append on a deque(maxlen=...): a full deque drops its oldest element.
deque_append(dq, x) ==
    IF Len(dq) < maxlen THEN Append(dq, x) ELSE Append(Tail(dq), x)

-----------------------------------------------------------------------------
(* log_interaction *)

save_interaction(interaction, io_ok) ==
    /\ interactions_file' = IF io_ok THEN Append(interactions_file, interaction)
                            ELSE interactions_file
    /\ logged' = IF io_ok THEN <<>> ELSE <<"ERROR Failed to save interaction">>

log_interaction(command, intent, result, user_id, io_ok) ==
    LET interaction ==
            [timestamp |-> now, command |-> command, intent |-> intent,
             result |-> result, user_id |-> user_id,
             state |-> get_state_features(command, None, hour),
             success |-> None, feedback_score |-> None]
    IN  /\ recent_interactions' = deque_append(recent_interactions, interaction)
        /\ save_interaction(interaction, io_ok)
        /\ now' = now + 1
        /\ retval' = None
        /\ UNCHANGED <<q_table, state_action_counts, intent_success_rates,
                       user_preferences, learning_rate, epsilon, feedback_file,
                       hour, reward, q_order, model_file>>

-----------------------------------------------------------------------------
(* calculate_reward *)

Zero == Frac(0, 1)
One == Frac(1, 1)

\* Mutant: a rating scaled by 4, so that a rating of 5 earns 0.5.
BaseReward_Quarter(interaction) ==
    IF interaction.feedback_score # None
    THEN Frac(interaction.feedback_score[1] - 3, 4)
    ELSE Zero

\* (rating - 3) / 2.0 when the interaction has a feedback score, else 0.0
BaseReward(interaction) ==
    IF interaction.feedback_score # None
    THEN Frac(interaction.feedback_score[1] - 3, 2)
    ELSE Zero

\* Mutant: rates[:10], the oldest ten outcomes.
SuccessWindow_Oldest(rates) ==
    IF Len(rates) <= 10 THEN rates ELSE SubSeq(rates, 1, 10)

\* rates[-10:]
SuccessWindow(rates) ==
    IF Len(rates) <= 10 THEN rates ELSE SubSeq(rates, Len(rates) - 9, Len(rates))

\* np.mean of a list of bools
Mean(bools) ==
    Frac(Cardinality({i \in 1 .. Len(bools) : bools[i]}), Len(bools))

\* (success_rate - 0.5) * 0.2, added only when the intent has a history
SuccessBonus(intent) ==
    IF intent \in DOMAIN intent_success_rates
    THEN FMul(FSub(Mean(SuccessWindow(intent_success_rates[intent])), Frac(1, 2)),
              Frac(1, 5))
    ELSE Zero

\* 1.0 / (1.0 + visit_count) * 0.1
ExplorationBonus(visit_count) ==
    FMul(Frac(1, 1 + visit_count), Frac(1, 10))

\* Mutant: max(-1.0, total_reward), the upper clamp forgotten.
Clamp_NoUpper(total_reward) ==
    FMax(Frac(-1, 1), total_reward)

\* max(-1.0, min(1.0, total_reward))
Clamp(total_reward) ==
    FMax(Frac(-1, 1), FMin(One, total_reward))

\* Mutant: the visit counted before the reward is computed.
calculate_reward_AfterCount(interaction) ==
    LET base_reward == FAdd(BaseReward(interaction), SuccessBonus(interaction.intent))
        visit_count == Get2(state_action_counts, interaction.state, interaction.intent, 0) + 1
        total_reward == FAdd(base_reward, ExplorationBonus(visit_count))
    IN  Clamp(total_reward)

calculate_reward(interaction) ==
    LET base_reward == FAdd(BaseReward(interaction), SuccessBonus(interaction.intent))
        visit_count == Get2(state_action_counts, interaction.state, interaction.intent, 0)
        total_reward == FAdd(base_reward, ExplorationBonus(visit_count))
    IN  Clamp(total_reward)

-----------------------------------------------------------------------------
(* update_q_value *)

\* The scaled reward added to the estimate, which is not discounted.
QUpdate_NoDiscount(current_q, r) ==
    FAdd(current_q, FMul(learning_rate, r))

\* The estimate replaced by the scaled reward.
QUpdate_Replace(current_q, r) ==
    FMul(learning_rate, r)

\* current_q + self.learning_rate * (reward - current_q)
QUpdate(current_q, r) ==
    FAdd(current_q, FMul(learning_rate, FSub(r, current_q)))

\* A dict keeps its keys in insertion order: assigning d[state][action] puts a
\* new action last and leaves the place of an existing one.
InsertKey(order, d, state, action) ==
    IF Has2(d, state, action) THEN order
    ELSE Put1(order, state,
              Append(IF state \in DOMAIN order THEN order[state] ELSE <<>>, action))

\* Mutant: the visit is read for the reward and never counted.
update_q_value_NoCount(interaction) ==
    LET state == interaction.state
        action == interaction.intent
        r == calculate_reward(interaction)
        current_q == Get2(q_table, state, action, Zero)
        new_q == QUpdate(current_q, r)
    IN  /\ reward' = Some(r)
        /\ q_table' = Put2(q_table, state, action, new_q)
        /\ q_order' = InsertKey(q_order, q_table, state, action)
        /\ state_action_counts' =
               Put2(state_action_counts, state, action,
                    Get2(state_action_counts, state, action, 0))

\* Mutant: the state key derived again from the command, at the hour of the
\* feedback.
update_q_value_Rederived(interaction) ==
    LET state == get_state_features(interaction.command, None, hour)
        action == interaction.intent
        r == calculate_reward(interaction)
        current_q == Get2(q_table, state, action, Zero)
        new_q == QUpdate(current_q, r)
    IN  /\ reward' = Some(r)
        /\ q_table' = Put2(q_table, state, action, new_q)
        /\ q_order' = InsertKey(q_order, q_table, state, action)
        /\ state_action_counts' =
               Put2(state_action_counts, state, action,
                    Get2(state_action_counts, state, action, 0) + 1)

update_q_value(interaction) ==
    LET state == interaction.state
        action == interaction.intent
        r == calculate_reward(interaction)
        current_q == Get2(q_table, state, action, Zero)
        new_q == QUpdate(current_q, r)
    IN  /\ reward' = Some(r)
        /\ q_table' = Put2(q_table, state, action, new_q)
        /\ q_order' = InsertKey(q_order, q_table, state, action)
        /\ state_action_counts' =
               Put2(state_action_counts, state, action,
                    Get2(state_action_counts, state, action, 0) + 1)

-----------------------------------------------------------------------------
(* save_feedback *)

\* The file after save_feedback: read the list (or start one), append, rewrite.
\* io_ok = FALSE is a failure raised before the file is rewritten (the read or
\* the open fails): it is caught and logged, and the file stays as it was.
FeedbackFileAfter(feedback, io_ok) ==
    IF io_ok
    THEN Some(Append(IF feedback_file = None THEN <<>> ELSE feedback_file[1], feedback))
    ELSE feedback_file

save_feedback(feedback, io_ok) ==
    feedback_file' = FeedbackFileAfter(feedback, io_ok)

-----------------------------------------------------------------------------
(* record_feedback *)

\* Mutant: rating <= 5, the lower bound forgotten.
ValidRating_NoLower(rating) ==
    rating <= 5

\* 1 <= rating <= 5
ValidRating(rating) ==
    1 <= rating /\ rating <= 5

\* interaction.get("interaction_id"): log_interaction never sets the key.
interaction_id(interaction) ==
    None

\* interaction["command"] == command_or_id or
\* interaction.get("interaction_id") == command_or_id, for command_or_id a
\* string as the signature declares it (command_or_id: str).
Matches(interaction, command_or_id) ==
    \/ interaction.command = command_or_id
    \/ interaction_id(interaction) = Some(command_or_id)

\* Mutant: the scan runs oldest first.
FindTarget_Oldest(command_or_id) ==
    LET hits == {i \in 1 .. Len(recent_interactions) :
                    Matches(recent_interactions[i], command_or_id)}
    IN  IF hits = {} THEN 0 ELSE CHOOSE i \in hits : \A j \in hits : i <= j

\* Mutant: with no match the newest interaction is taken.
FindTarget_DefaultNewest(command_or_id) ==
    LET hits == {i \in 1 .. Len(recent_interactions) :
                    Matches(recent_interactions[i], command_or_id)}
    IN  IF hits = {} THEN Len(recent_interactions)
        ELSE CHOOSE i \in hits : \A j \in hits : j <= i

\* The scan over reversed(self.recent_interactions): the index of the first
\* match from the newest end, 0 when nothing matches.
FindTarget(command_or_id) ==
    LET hits == {i \in 1 .. Len(recent_interactions) :
                    Matches(recent_interactions[i], command_or_id)}
    IN  IF hits = {} THEN 0 ELSE CHOOSE i \in hits : \A j \in hits : j <= i

\* rating >= 3
IsSuccess(rating) ==
    rating >= 3

\* The feedback applied to a resolved interaction (lines 174-200).
ApplyFeedback(idx, rating, user_id, io_ok) ==
    LET target_interaction ==
            [recent_interactions[idx] EXCEPT !.feedback_score = Some(rating),
                                             !.success = Some(IsSuccess(rating))]
        intent == target_interaction.intent
        prefs == IF user_id \in DOMAIN user_preferences
                 THEN user_preferences[user_id] ELSE EmptyDict
        ratings == IF intent \in DOMAIN prefs THEN prefs[intent] ELSE <<>>
        rates == IF intent \in DOMAIN intent_success_rates
                 THEN intent_success_rates[intent] ELSE <<>>
        feedback_entry ==
            [timestamp |-> now, command |-> target_interaction.command,
             intent |-> intent, rating |-> rating, user_id |-> user_id,
             state |-> target_interaction.state]
    IN  /\ recent_interactions' = [recent_interactions EXCEPT ![idx] = target_interaction]
        /\ update_q_value(target_interaction)
        /\ intent_success_rates' =
               Put1(intent_success_rates, intent, Append(rates, IsSuccess(rating)))
        /\ user_preferences' =
               Put1(user_preferences, user_id, Put1(prefs, intent, Append(ratings, rating)))
        /\ save_feedback(feedback_entry, io_ok)
        /\ now' = now + 1
        /\ logged' = <<"INFO Updated Q-value">>
                     \o (IF io_ok THEN <<>> ELSE <<"ERROR Failed to save feedback">>)
                     \o <<"INFO Recorded feedback">>
        /\ retval' = None
        /\ UNCHANGED <<learning_rate, epsilon, interactions_file, hour, model_file>>

record_feedback(command_or_id, rating, user_id, io_ok) ==
    IF ~ValidRating(rating)
    THEN /\ logged' = <<"WARNING Invalid rating">>
         /\ retval' = None
         /\ UNCHANGED <<engine, now, hour, reward>>
    ELSE IF FindTarget(command_or_id) = 0
    THEN /\ logged' = <<"WARNING No interaction found">>
         /\ retval' = None
         /\ UNCHANGED <<engine, now, hour, reward>>
    ELSE ApplyFeedback(FindTarget(command_or_id), rating, user_id, io_ok)

\* Applied feedbacks so far: every one appends to one success history.
RECURSIVE SumLen(_, _)
SumLen(d, keys) ==
    IF keys = {} THEN 0
    ELSE LET k == CHOOSE x \in keys : TRUE
         IN  Len(d[k]) + SumLen(d, keys \ {k})

FeedbackCount ==
    SumLen(intent_success_rates, DOMAIN intent_success_rates)

-----------------------------------------------------------------------------
(* The engine after construction with no persisted files *)

Init ==
    /\ q_table = EmptyDict
    /\ state_action_counts = EmptyDict
    /\ recent_interactions = <<>>
    /\ intent_success_rates = EmptyDict
    /\ user_preferences = EmptyDict
    /\ learning_rate = Frac(1, 10)
    /\ epsilon = Frac(1, 10)
    /\ feedback_file = None
    /\ interactions_file = <<>>
    /\ now = 0
    /\ hour \in Hours
    /\ reward = None
    /\ retval = None
    /\ logged = <<>>
    /\ q_order = EmptyDict
    /\ model_file = None
    /\ harness = None
    /\ threads = <<>>
    /\ running = TRUE
    /\ last_save = None

LogStep ==
    /\ UNCHANGED aux
    /\ now < MaxSteps
    /\ \E command \in Commands, intent \in Intents, result \in Results,
          io_ok \in LogWrites :
          log_interaction(command, intent, result, DefaultUser, io_ok)

FeedbackStep ==
    /\ UNCHANGED aux
    /\ now < MaxSteps
    /\ \E command_or_id \in Commands \cup {UnknownCommand}, rating \in Ratings,
          user_id \in Users, io_ok \in BOOLEAN :
          record_feedback(command_or_id, rating, user_id, io_ok)

Next ==
    \/ LogStep
    \/ FeedbackStep

Spec == Init /\ [][Next]_vars

-----------------------------------------------------------------------------
(* SpecReward: calculate_reward over drawn interactions, histories and counts *)

RewardCommand == "schedule meeting tomorrow at 4pm"
RewardIntent == "calendar_event"

\* Non-empty lists of bools up to MaxHistory long.
Histories ==
    UNION {[1 .. n -> BOOLEAN] : n \in 1 .. MaxHistory}

\* The engine as load_model leaves it from a snapshot holding one intent's
\* success history and one pair's value and visit count, with one interaction
\* in the buffer: rated or not yet rated.
InitReward ==
    /\ hour \in Hours
    /\ \E score \in {None} \cup {Some(r) : r \in 1 .. 5} :
          recent_interactions =
              <<[timestamp |-> 0, command |-> RewardCommand, intent |-> RewardIntent,
                 result |-> "done", user_id |-> DefaultUser,
                 state |-> get_state_features(RewardCommand, None, hour),
                 success |-> IF score = None THEN None ELSE Some(IsSuccess(score[1])),
                 feedback_score |-> score]>>
    /\ \E rates \in {None} \cup {Some(h) : h \in Histories} :
          intent_success_rates =
              IF rates = None THEN EmptyDict ELSE Put1(EmptyDict, RewardIntent, rates[1])
    /\ \E visits \in {None} \cup {Some(v) : v \in 1 .. MaxVisits} :
          /\ state_action_counts =
                 IF visits = None THEN EmptyDict
                 ELSE Put2(EmptyDict, recent_interactions[1].state, RewardIntent, visits[1])
          /\ q_table =
                 IF visits = None THEN EmptyDict
                 ELSE Put2(EmptyDict, recent_interactions[1].state, RewardIntent, Zero)
          /\ q_order =
                 IF visits = None THEN EmptyDict
                 ELSE Put1(EmptyDict, recent_interactions[1].state, <<RewardIntent>>)
    /\ user_preferences = EmptyDict
    /\ learning_rate = Frac(1, 10)
    /\ epsilon = Frac(1, 10)
    /\ feedback_file = None
    /\ interactions_file = <<>>
    /\ now = 1
    /\ reward = None
    /\ retval = None
    /\ logged = <<>>
    /\ model_file = None
    /\ harness = None
    /\ threads = <<>>
    /\ running = TRUE
    /\ last_save = None

\* A direct call of calculate_reward(interaction): returns the reward; reading
\* self.state_action_counts[state][action] creates the entry (0) when missing.
calculate_reward_call(interaction) ==
    /\ reward' = Some(calculate_reward(interaction))
    /\ retval' = Some(calculate_reward(interaction))
    /\ state_action_counts' =
           Put2(state_action_counts, interaction.state, interaction.intent,
                Get2(state_action_counts, interaction.state, interaction.intent, 0))
    /\ logged' = <<>>
    /\ UNCHANGED <<q_table, recent_interactions, intent_success_rates, user_preferences,
                   learning_rate, epsilon, feedback_file, interactions_file, now, hour,
                   q_order, model_file>>

RewardStep ==
    /\ UNCHANGED aux
    /\ reward = None
    /\ calculate_reward_call(recent_interactions[1])

NextReward ==
    RewardStep

SpecReward == InitReward /\ [][NextReward]_vars

-----------------------------------------------------------------------------
(* SpecLedger: a long session that fills the recent-interaction buffer *)

LedgerCommand == "schedule meeting tomorrow at 4pm"
LedgerIntent == "calendar_event"

\* The first command is any command; every later one is LedgerCommand.
LedgerLogStep ==
    /\ UNCHANGED aux
    /\ Len(interactions_file) < maxlen + Overflow
    /\ \E command \in (IF interactions_file = <<>> THEN Commands ELSE {LedgerCommand}) :
          log_interaction(command, LedgerIntent, "done", DefaultUser, TRUE)

\* Feedback arrives once the buffer is full; one feedback is applied per run.
LedgerFeedbackStep ==
    /\ UNCHANGED aux
    /\ Len(recent_interactions) = maxlen
    /\ FeedbackCount = 0
    /\ \E command_or_id \in Commands \cup {UnknownCommand}, rating \in {0, 4} :
          record_feedback(command_or_id, rating, DefaultUser, TRUE)

NextLedger ==
    \/ LedgerLogStep
    \/ LedgerFeedbackStep

SpecLedger == Init /\ [][NextLedger]_vars

-----------------------------------------------------------------------------
(* get_enhanced_intent *)

\* What the trained classifier may answer: its best label and that label's
\* probability (clf.predict_proba(emb)[0], probs.argmax(), probs.max()).
Labels == {"send_email"}
Probabilities == {Frac(1, 10), Frac(3, 10), Frac(9, 10)}

\* The draws of np.random.random(), a float in [0, 1).
Draws == {Frac(0, 1), Frac(1, 10)}

\* possible_intents, the list np.random.choice draws from.
possible_intents ==
    <<"calendar_event", "send_email", "web_search", "launch_app",
      "rag_query", "file_manage", "calendar_list", "workflow_trigger">>

\* x < y on floats
FLt(x, y) ==
    FLe(x, y) /\ ~FLe(y, x)

\* intent_classifier.predict_intent on a classifier answer: a confidence under
\* 0.3 is reported as ("unknown", 0.0).
predict_intent(label, confidence) ==
    IF FLt(confidence, Frac(3, 10))
    THEN [intent |-> "unknown", confidence |-> Zero]
    ELSE [intent |-> label, confidence |-> confidence]

\* Mutant: the scan keeps the last maximal action (>= in place of >).
BestAction_Last(q_values, order) ==
    LET i == CHOOSE k \in 1 .. Len(order) :
                 /\ \A j \in 1 .. Len(order) : FLe(q_values[order[j]], q_values[order[k]])
                 /\ \A j \in (k + 1) .. Len(order) :
                        FLt(q_values[order[j]], q_values[order[k]])
    IN  order[i]

\* max(q_values.items(), key=lambda x: x[1])[0]: max scans the items in the
\* dict's insertion order and keeps the first maximal one.
BestAction(q_values, order) ==
    LET i == CHOOSE k \in 1 .. Len(order) :
                 /\ \A j \in 1 .. Len(order) : FLe(q_values[order[j]], q_values[order[k]])
                 /\ \A j \in 1 .. (k - 1) : FLt(q_values[order[j]], q_values[order[k]])
    IN  order[i]

\* Mutant: the explored candidate carries the confidence of an exploited one.
RLCandidate_Confident(state, base, u, choice) ==
    IF state \in DOMAIN q_table
    THEN IF FLt(u, epsilon)
         THEN [intent |-> possible_intents[choice], confidence |-> Frac(4, 5)]
         ELSE IF DOMAIN q_table[state] # {}
              THEN [intent |-> BestAction(q_table[state], q_order[state]),
                    confidence |-> Frac(4, 5)]
              ELSE base
    ELSE base

\* Lines 96-117: the RL prediction for the state. u is the random draw and
\* choice the index np.random.choice picks.
RLCandidate(state, base, u, choice) ==
    IF state \in DOMAIN q_table
    THEN IF FLt(u, epsilon)
         THEN [intent |-> possible_intents[choice], confidence |-> Frac(1, 2)]
         ELSE IF DOMAIN q_table[state] # {}
              THEN [intent |-> BestAction(q_table[state], q_order[state]),
                    confidence |-> Frac(4, 5)]
              ELSE base
    ELSE base

\* Mutant: the RL prediction is taken whenever the base confidence is under 0.3.
Combine_AnyRL(base, rl) ==
    IF FLt(Frac(4, 5), base.confidence) THEN base
    ELSE IF FLt(base.confidence, Frac(3, 10)) THEN rl
    ELSE base

\* Lines 119-131: the final prediction from the base and the RL prediction.
Combine(base, rl) ==
    IF FLt(Frac(4, 5), base.confidence) THEN base
    ELSE IF FLt(base.confidence, Frac(3, 10)) /\ FLt(Frac(3, 5), rl.confidence) THEN rl
    ELSE base

\* Mutant: the state is looked up as self.q_table[state] without the membership
\* test, which creates the key in a defaultdict.
LookUp_Creating(d, state) ==
    IF state \in DOMAIN d THEN d ELSE Put1(d, state, EmptyDict)

\* The store after `state in self.q_table` and, only for a state found, the
\* read self.q_table[state]: neither creates a key.
LookUp(d, state) ==
    d

\* A confidence under the format {:.2f}, for the confidences that occur.
Fmt2(x) ==
    CASE x = Frac(0, 1) -> "0.00"
      [] x = Frac(3, 10) -> "0.30"
      [] x = Frac(1, 2) -> "0.50"
      [] x = Frac(4, 5) -> "0.80"
      [] x = Frac(9, 10) -> "0.90"

\* The logger.info record of lines 133-134: its text, then the fields Base,
\* RL and Final it formats, each an intent and a confidence.
PredictionLog(base, rl, final) ==
    <<"INFO Intent prediction",
      base.intent, Fmt2(base.confidence),
      rl.intent, Fmt2(rl.confidence),
      final.intent, Fmt2(final.confidence)>>

get_enhanced_intent(command, label, confidence, u, choice) ==
    LET base == predict_intent(label, confidence)
        state == get_state_features(command, None, hour)
        rl == RLCandidate(state, base, u, choice)
        final == Combine(base, rl)
    IN  /\ UNCHANGED <<state_action_counts, recent_interactions, intent_success_rates,
                       user_preferences, learning_rate, epsilon, feedback_file,
                       interactions_file, now, hour, reward, q_order, model_file>>
        /\ q_table' = LookUp(q_table, state)
        /\ retval' = Some(<<final.intent, final.confidence>>)
        /\ logged' = PredictionLog(base, rl, final)

-----------------------------------------------------------------------------
(* save_model, load_model, load_feedback_history, __init__ *)

\* The fields of model_data in the order load_model reads them.
ModelFields ==
    <<"q_table", "state_action_counts", "intent_success_rates", "user_preferences">>

\* model_data (lines 336-343). dict(self.q_table) keeps each state's actions
\* in their insertion order, which q_order carries.
model_data ==
    [q_table |-> q_table, q_order |-> q_order,
     state_action_counts |-> state_action_counts,
     intent_success_rates |-> intent_success_rates,
     user_preferences |-> user_preferences,
     learning_rate |-> learning_rate, epsilon |-> epsilon]

\* A model file: a complete pickle of model_data, the fields of `malformed`
\* holding something else than a mapping; or a pickle cut short.
Pickle(data, malformed) ==
    Some([kind |-> "pickle", data |-> data, malformed |-> malformed])

Truncated ==
    Some([kind |-> "truncated"])

\* save_model: open(self.model_file, "wb") and pickle.dump. io_ok = FALSE is a
\* failing open: caught and logged, the file stays as it was.
save_model(io_ok) ==
    /\ model_file' = IF io_ok THEN Pickle(model_data, {}) ELSE model_file
    /\ logged' = IF io_ok THEN <<"INFO RL model saved successfully">>
                 ELSE <<"ERROR Failed to save RL model">>
    /\ retval' = None
    /\ UNCHANGED <<q_table, state_action_counts, recent_interactions,
                   intent_success_rates, user_preferences, learning_rate, epsilon,
                   feedback_file, interactions_file, now, hour, reward, q_order>>

\* An enumeration of a set, standing for the order a dict yields keys whose
\* order the model does not keep.
RECURSIVE SomeOrder(_)
SomeOrder(keys) ==
    IF keys = {} THEN <<>>
    ELSE LET k == CHOOSE x \in keys : TRUE
         IN  <<k>> \o SomeOrder(keys \ {k})

\* Mutant: only the first action of each state is read back.
LoadActions_FirstOnly(loaded, state, actions, keys) ==
    IF keys = <<>> THEN loaded
    ELSE [d |-> Put2(loaded.d, state, Head(keys), actions[Head(keys)]),
          order |-> InsertKey(loaded.order, loaded.d, state, Head(keys))]

\* for action, value in actions.items(): d[state][action] = value
\* (lines 364-365, 369-370), keys being the order of actions.items().
RECURSIVE LoadActions(_, _, _, _)
LoadActions(loaded, state, actions, keys) ==
    IF keys = <<>> THEN loaded
    ELSE LoadActions([d |-> Put2(loaded.d, state, Head(keys), actions[Head(keys)]),
                      order |-> InsertKey(loaded.order, loaded.d, state, Head(keys))],
                     state, actions, Tail(keys))

\* for state, actions in saved.items(): ... into a fresh defaultdict
\* (lines 362-365, 367-370). A state saved with no action gets no key.
RECURSIVE LoadStates(_, _, _, _)
LoadStates(loaded, saved, order, states) ==
    IF states = <<>> THEN loaded
    ELSE LoadStates(LoadActions(loaded, Head(states), saved[Head(states)],
                                order[Head(states)]),
                    saved, order, Tail(states))

LoadNested(saved, order) ==
    LoadStates([d |-> EmptyDict, order |-> EmptyDict], saved, order,
               SomeOrder(DOMAIN saved))

\* The order of each inner dict of a nested dict whose order the model does
\* not keep.
InnerOrders(saved) ==
    [state \in DOMAIN saved |-> SomeOrder(DOMAIN saved[state])]

\* for key, value in saved.items(): d[key] = value, into a fresh defaultdict
\* (lines 372-374, 376-378).
RECURSIVE LoadFlat(_, _, _)
LoadFlat(d, saved, keys) ==
    IF keys = <<>> THEN d
    ELSE LoadFlat(Put1(d, Head(keys), saved[Head(keys)]), saved, Tail(keys))

\* The index in ModelFields of the first malformed field (5: none).
FirstMalformed(malformed) ==
    IF malformed = {} THEN Len(ModelFields) + 1
    ELSE CHOOSE i \in 1 .. Len(ModelFields) :
             /\ ModelFields[i] \in malformed
             /\ \A j \in 1 .. (i - 1) : ModelFields[j] \notin malformed

\* The in-memory fields the loaders write.
memory ==
    [q_table |-> q_table, q_order |-> q_order,
     state_action_counts |-> state_action_counts,
     intent_success_rates |-> intent_success_rates,
     user_preferences |-> user_preferences,
     learning_rate |-> learning_rate, epsilon |-> epsilon]

\* The fields as __init__ sets them before it loads anything (lines 21-32).
FreshMemory ==
    [q_table |-> EmptyDict, q_order |-> EmptyDict,
     state_action_counts |-> EmptyDict,
     intent_success_rates |-> EmptyDict,
     user_preferences |-> EmptyDict,
     learning_rate |-> Frac(1, 10), epsilon |-> Frac(1, 10)]

\* load_model on a file that pickle.load reads, from the fields mem. Each
\* field is replaced by a fresh defaultdict and then filled; reading a
\* malformed field raises, which leaves that field fresh and every later one
\* as it was (lines 361-386).
LoadPickle(file, mem) ==
    LET data == file.data
        stop == FirstMalformed(file.malformed)
        q == LoadNested(data.q_table, data.q_order)
        counts == LoadNested(data.state_action_counts,
                             InnerOrders(data.state_action_counts))
    IN  [q_table |-> IF stop > 1 THEN q.d ELSE EmptyDict,
         q_order |-> IF stop > 1 THEN q.order ELSE EmptyDict,
         state_action_counts |->
             IF stop > 2 THEN counts.d
             ELSE IF stop = 2 THEN EmptyDict
             ELSE mem.state_action_counts,
         intent_success_rates |->
             IF stop > 3
             THEN LoadFlat(EmptyDict, data.intent_success_rates,
                           SomeOrder(DOMAIN data.intent_success_rates))
             ELSE IF stop = 3 THEN EmptyDict
             ELSE mem.intent_success_rates,
         user_preferences |->
             IF stop > 4
             THEN LoadFlat(EmptyDict, data.user_preferences,
                           SomeOrder(DOMAIN data.user_preferences))
             ELSE IF stop = 4 THEN EmptyDict
             ELSE mem.user_preferences,
         learning_rate |-> IF stop > 4 THEN data.learning_rate ELSE mem.learning_rate,
         epsilon |-> IF stop > 4 THEN data.epsilon ELSE mem.epsilon]

\* The fields after load_model (lines 352-386): untouched when the file is
\* missing or pickle.load raises on it.
ModelLoaded(file, mem) ==
    IF file = None THEN mem
    ELSE IF file[1].kind = "truncated" THEN mem
    ELSE LoadPickle(file[1], mem)

\* The records load_model logs.
ModelLoadLog(file) ==
    IF file = None THEN <<>>
    ELSE IF file[1].kind = "truncated" \/ file[1].malformed # {}
    THEN <<"ERROR Failed to load RL model">>
    ELSE <<"INFO RL model loaded successfully">>

\* One turn of the loop of load_feedback_history (lines 315-327).
FeedbackAppended(mem, feedback) ==
    LET intent == feedback.intent
        rating == feedback.rating
        user_id == feedback.user_id
        rates == IF intent \in DOMAIN mem.intent_success_rates
                 THEN mem.intent_success_rates[intent] ELSE <<>>
        prefs == IF user_id \in DOMAIN mem.user_preferences
                 THEN mem.user_preferences[user_id] ELSE EmptyDict
        ratings == IF intent \in DOMAIN prefs THEN prefs[intent] ELSE <<>>
    IN  [mem EXCEPT
           !.intent_success_rates = Put1(@, intent, Append(rates, rating >= 3)),
           !.user_preferences = Put1(@, user_id, Put1(prefs, intent, Append(ratings, rating)))]

\* feedback["intent"] and feedback["rating"] raise KeyError on an entry
\* without the key.
WellFormed(feedback) ==
    {"intent", "rating", "user_id"} \subseteq DOMAIN feedback

\* The loop over the entries of the file: it stops at the first entry that
\* raises, keeping what the earlier entries appended.
RECURSIVE FeedbacksLoaded(_, _)
FeedbacksLoaded(mem, feedbacks) ==
    IF feedbacks = <<>> THEN mem
    ELSE IF ~WellFormed(Head(feedbacks)) THEN mem
    ELSE FeedbacksLoaded(FeedbackAppended(mem, Head(feedbacks)), Tail(feedbacks))

\* The fields after load_feedback_history (lines 305-332).
FeedbackHistoryLoaded(file, mem) ==
    IF file = None THEN mem
    ELSE FeedbacksLoaded(mem, file[1])

FeedbackLoadLog(file) ==
    IF file = None THEN <<>>
    ELSE IF \E i \in 1 .. Len(file[1]) : ~WellFormed(file[1][i])
    THEN <<"ERROR Failed to load feedback history">>
    ELSE <<"INFO Loaded feedback entries">>

\* Assign the loaders' fields.
SetMemory(mem) ==
    /\ q_table' = mem.q_table
    /\ q_order' = mem.q_order
    /\ state_action_counts' = mem.state_action_counts
    /\ intent_success_rates' = mem.intent_success_rates
    /\ user_preferences' = mem.user_preferences
    /\ learning_rate' = mem.learning_rate
    /\ epsilon' = mem.epsilon

load_model ==
    /\ SetMemory(ModelLoaded(model_file, memory))
    /\ logged' = ModelLoadLog(model_file)
    /\ retval' = None
    /\ UNCHANGED <<recent_interactions, feedback_file, interactions_file, model_file,
                   now, hour, reward>>

load_feedback_history ==
    /\ SetMemory(FeedbackHistoryLoaded(feedback_file, memory))
    /\ logged' = FeedbackLoadLog(feedback_file)
    /\ retval' = None
    /\ UNCHANGED <<recent_interactions, feedback_file, interactions_file, model_file,
                   now, hour, reward>>

\* AdaptiveRLEngine(): a new engine over the files on disk (lines 16-37). The
\* fields start fresh, then load_feedback_history and load_model run in that
\* order; the recent-interaction buffer starts empty and no loader fills it.
Started(model, feedback) ==
    ModelLoaded(model, FeedbackHistoryLoaded(feedback, FreshMemory))

init_engine ==
    /\ SetMemory(Started(model_file, feedback_file))
    /\ recent_interactions' = <<>>
    /\ logged' = FeedbackLoadLog(feedback_file) \o ModelLoadLog(model_file)
    /\ reward' = None
    /\ retval' = None
    /\ UNCHANGED <<feedback_file, interactions_file, model_file, now, hour>>

-----------------------------------------------------------------------------
(* SpecDecide: decisions taken during a session of decisions and feedbacks *)

\* The session records decisions on one command text, under either intent.
DecideCommand == "schedule meeting tomorrow at 4pm"
DecideRatings == {1, 5}

DecideLogStep ==
    /\ UNCHANGED aux
    /\ now < MaxCalls
    /\ \E intent \in Intents :
          log_interaction(DecideCommand, intent, "done", DefaultUser, TRUE)

DecideFeedbackStep ==
    /\ UNCHANGED aux
    /\ now < MaxCalls
    /\ \E rating \in DecideRatings :
          record_feedback(DecideCommand, rating, DefaultUser, TRUE)

\* The engine saves its model, and a new engine is built from the files
\* right after a save.
DecideSaveStep ==
    /\ UNCHANGED aux
    /\ model_file = None
    /\ save_model(TRUE)

DecideRestartStep ==
    /\ UNCHANGED aux
    /\ logged = <<"INFO RL model saved successfully">>
    /\ init_engine

\* np.random.choice is called on the explore branch only.
Choices(u) ==
    IF FLt(u, epsilon) THEN 1 .. Len(possible_intents) ELSE {1}

\* The records of a decision.
IsPrediction(records) ==
    Len(records) = 7 /\ records[1] = "INFO Intent prediction"

\* A decision follows a call of another kind: a second decision in a row
\* finds the engine as the first one found it.
DecideStep ==
    /\ UNCHANGED aux
    /\ ~IsPrediction(logged)
    /\ \E command \in {DecideCommand, UnknownCommand}, label \in Labels,
          confidence \in Probabilities, u \in Draws :
          \E choice \in Choices(u) :
              get_enhanced_intent(command, label, confidence, u, choice)

NextDecide ==
    \/ DecideLogStep
    \/ DecideFeedbackStep
    \/ DecideSaveStep
    \/ DecideRestartStep
    \/ DecideStep

SpecDecide == Init /\ [][NextDecide]_vars

-----------------------------------------------------------------------------
(* SpecSnapshot: a scripted session that fills the store, with saves and restarts *)

\* The k-th decision of the script: each command text in turn, under one
\* intent and then the other.
ScriptCommand(k) ==
    <<"schedule meeting tomorrow at 4pm", "send mail", "play some music">>
        [(((k - 1) \div 2) % 3) + 1]

ScriptIntent(k) ==
    <<"calendar_event", "send_email">>[((k - 1) % 2) + 1]

\* The ratings the scripted sessions submit.
SessionRatings == {2, 5}

\* The newest interaction of the buffer still waits for its feedback.
AwaitingFeedback ==
    /\ recent_interactions # <<>>
    /\ recent_interactions[Len(recent_interactions)].feedback_score = None

SnapshotLogStep ==
    /\ UNCHANGED aux
    /\ Len(interactions_file) < MaxRecords
    /\ ~AwaitingFeedback
    /\ LET k == Len(interactions_file) + 1
       IN  log_interaction(ScriptCommand(k), ScriptIntent(k), "done", DefaultUser, TRUE)

\* The newest decision is rated, by a running engine whose snapshot has not
\* been set aside for a comparison.
SessionRateStep ==
    /\ UNCHANGED aux
    /\ running
    /\ harness = None
    /\ AwaitingFeedback
    /\ \E rating \in SessionRatings :
          record_feedback(recent_interactions[Len(recent_interactions)].command,
                          rating, DefaultUser, TRUE)

SnapshotSaveStep ==
    /\ UNCHANGED aux
    /\ ~AwaitingFeedback
    /\ logged # <<"INFO RL model saved successfully">>
    /\ \E io_ok \in BOOLEAN : save_model(io_ok)

\* A new engine is built from the files right after a completed save.
SnapshotRestartStep ==
    /\ UNCHANGED aux
    /\ logged = <<"INFO RL model saved successfully">>
    /\ init_engine

NextSnapshot ==
    \/ SnapshotLogStep
    \/ SessionRateStep
    \/ SnapshotSaveStep
    \/ SnapshotRestartStep

SpecSnapshot == Init /\ [][NextSnapshot]_vars

-----------------------------------------------------------------------------
(* decay_exploration *)

\* min in place of max: the floor taken as a ceiling.
decay_exploration_Ceiling(decay_rate, min_epsilon) ==
    /\ \E decayed \in {FMul(epsilon, decay_rate)}, floor \in {min_epsilon} :
          epsilon' = FMin(floor, decayed)
    /\ logged' = <<"INFO Exploration rate decayed">>
    /\ retval' = None
    /\ UNCHANGED <<q_table, state_action_counts, recent_interactions,
                   intent_success_rates, user_preferences, learning_rate,
                   feedback_file, interactions_file, now, hour, reward, q_order,
                   model_file>>

\* self.epsilon = max(min_epsilon, self.epsilon * decay_rate) (lines 444-447).
\* The default arguments are decay_rate = 0.995 and min_epsilon = 0.01.
decay_exploration(decay_rate, min_epsilon) ==
    /\ \E decayed \in {FMul(epsilon, decay_rate)}, floor \in {min_epsilon} :
          epsilon' = FMax(floor, decayed)
    /\ logged' = <<"INFO Exploration rate decayed">>
    /\ retval' = None
    /\ UNCHANGED <<q_table, state_action_counts, recent_interactions,
                   intent_success_rates, user_preferences, learning_rate,
                   feedback_file, interactions_file, now, hour, reward, q_order,
                   model_file>>

-----------------------------------------------------------------------------
(* SpecRestart: the same operations on an engine that kept running and on   *)
(* one constructed from the files its save left                             *)

\* Every field of the engine and every file, as one value.
ProgramState ==
    [q_table |-> q_table, state_action_counts |-> state_action_counts,
     recent_interactions |-> recent_interactions,
     intent_success_rates |-> intent_success_rates,
     user_preferences |-> user_preferences, learning_rate |-> learning_rate,
     epsilon |-> epsilon, feedback_file |-> feedback_file,
     interactions_file |-> interactions_file, now |-> now, hour |-> hour,
     q_order |-> q_order, model_file |-> model_file]

\* The operations of the engine, with their arguments.
Op(op, command, intent, rating, u) ==
    [op |-> op, command |-> command, intent |-> intent, rating |-> rating, u |-> u]

RestartOps ==
    {Op("log", command, intent, 0, Zero) :
        command \in Commands, intent \in Intents}
    \cup {Op("feedback", command, "", rating, Zero) :
        command \in Commands, rating \in SessionRatings}
    \cup {Op("decide", command, "", 0, u) : command \in Commands, u \in Draws}
    \cup {Op("decay", "", "", 0, Zero)}

Perform(op) ==
    \/ /\ op.op = "log"
       /\ log_interaction(op.command, op.intent, "done", DefaultUser, TRUE)
    \/ /\ op.op = "feedback"
       /\ record_feedback(op.command, op.rating, DefaultUser, TRUE)
    \/ /\ op.op = "decide"
       /\ get_enhanced_intent(op.command, "send_email", Frac(9, 10), op.u, 1)
    \/ /\ op.op = "decay"
       /\ decay_exploration(Frac(199, 200), Frac(1, 100))

\* Before the save: decisions are recorded and rated.
RestartLogStep ==
    /\ UNCHANGED aux
    /\ harness = None
    /\ Len(interactions_file) < MaxPrefix
    /\ \E command \in Commands, intent \in Intents :
          log_interaction(command, intent, "done", DefaultUser, TRUE)

\* The engine saves its snapshot; the files are kept as the save left them.
RestartSaveStep ==
    /\ UNCHANGED <<threads, running, last_save>>
    /\ harness = None
    /\ save_model(TRUE)
    /\ harness' = Some([phase |-> "running",
                        files |-> [ProgramState EXCEPT
                                     !.model_file = Pickle(model_data, {})],
                        script |-> <<>>, pos |-> 0, reference |-> None])

\* The engine keeps running: any operation, noted in the script.
RestartRunStep ==
    /\ UNCHANGED <<threads, running, last_save>>
    /\ harness # None
    /\ harness[1].phase = "running"
    /\ Len(harness[1].script) < MaxOps
    /\ \E op \in RestartOps :
          /\ Perform(op)
          /\ harness' = Some([harness[1] EXCEPT !.script = Append(@, op)])

\* AdaptiveRLEngine() over the files the save left (lines 16-37), the clock set
\* back to the moment of the save; what the running engine ended in is kept
\* for the comparison.
RestartNewEngineStep ==
    /\ UNCHANGED <<threads, running, last_save>>
    /\ harness # None
    /\ harness[1].phase = "running"
    /\ harness[1].script # <<>>
    /\ LET files == harness[1].files
       IN  /\ SetMemory(Started(files.model_file, files.feedback_file))
           /\ recent_interactions' = <<>>
           /\ logged' = FeedbackLoadLog(files.feedback_file)
                            \o ModelLoadLog(files.model_file)
           /\ reward' = None
           /\ retval' = None
           /\ feedback_file' = files.feedback_file
           /\ interactions_file' = files.interactions_file
           /\ model_file' = files.model_file
           /\ now' = files.now
           /\ hour' = files.hour
    /\ harness' = Some([harness[1] EXCEPT !.phase = "restarted", !.pos = 1,
                                          !.reference = Some(memory)])

\* The restarted engine is given the operations of the script, in order.
RestartReplayStep ==
    /\ UNCHANGED <<threads, running, last_save>>
    /\ harness # None
    /\ harness[1].phase = "restarted"
    /\ harness[1].pos <= Len(harness[1].script)
    /\ Perform(harness[1].script[harness[1].pos])
    /\ harness' = Some([harness[1] EXCEPT !.pos = @ + 1])

NextRestart ==
    \/ RestartLogStep
    \/ SessionRateStep
    \/ RestartSaveStep
    \/ RestartRunStep
    \/ RestartNewEngineStep
    \/ RestartReplayStep

SpecRestart == Init /\ [][NextRestart]_vars

-----------------------------------------------------------------------------
(* SpecLoad: sessions of one engine after another over the same files, which *)
(* may be found damaged at start-up; the loaders may also be called on a     *)
(* running engine                                                            *)

SessionLogStep ==
    /\ UNCHANGED aux
    /\ running
    /\ Len(interactions_file) < MaxSession
    /\ ~AwaitingFeedback
    /\ LET k == Len(interactions_file) + 1
       IN  log_interaction(ScriptCommand(k), ScriptIntent(k), "done", DefaultUser, TRUE)

LoadModelStep ==
    /\ UNCHANGED aux
    /\ running
    /\ load_model

\* The ratings the preferences of the user hold.
PreferenceCount ==
    IF DefaultUser \in DOMAIN user_preferences
    THEN SumLen(user_preferences[DefaultUser], DOMAIN user_preferences[DefaultUser])
    ELSE 0

\* load_feedback_history appends to the histories: the calls stop once the
\* success history or the preferences hold MaxLoaded entries.
LoadHistoryStep ==
    /\ UNCHANGED aux
    /\ running
    /\ FeedbackCount < MaxLoaded
    /\ PreferenceCount < MaxLoaded
    /\ load_feedback_history

\* The first engine is destroyed: __del__ saves the model (lines 449-455).
LoadStopStep ==
    /\ UNCHANGED <<harness, threads, last_save>>
    /\ running
    /\ model_file = None
    /\ ~AwaitingFeedback
    /\ running' = FALSE
    /\ save_model(TRUE)

\* The model file, as a later engine may find it: cut short, or one of its
\* fields holding something else than a mapping.
Damaged(file) ==
    {Truncated} \cup {Pickle(file[1].data, {field}) :
                         field \in {ModelFields[i] : i \in 1 .. Len(ModelFields)}}

LoadDamageModelStep ==
    /\ UNCHANGED <<q_table, state_action_counts, recent_interactions,
                   intent_success_rates, user_preferences, learning_rate, epsilon,
                   feedback_file, interactions_file, now, hour, reward, retval,
                   logged, q_order, aux>>
    /\ ~running
    /\ model_file # None
    /\ model_file[1].kind = "pickle"
    /\ model_file[1].malformed = {}
    /\ \E file \in Damaged(model_file) : model_file' = file

LoadDamageFeedbackStep ==
    /\ UNCHANGED <<q_table, state_action_counts, recent_interactions,
                   intent_success_rates, user_preferences, learning_rate, epsilon,
                   model_file, interactions_file, now, hour, reward, retval,
                   logged, q_order, aux>>
    /\ ~running
    /\ feedback_file # None
    /\ \A i \in 1 .. Len(feedback_file[1]) : WellFormed(feedback_file[1][i])
    /\ \E i \in 1 .. Len(feedback_file[1]) :
          feedback_file' =
              Some([feedback_file[1] EXCEPT
                      ![i] = [key \in DOMAIN @ \ {"intent"} |-> @[key]]])

SessionStartStep ==
    /\ UNCHANGED <<harness, threads, last_save>>
    /\ ~running
    /\ running' = TRUE
    /\ init_engine

NextLoad ==
    \/ SessionLogStep
    \/ SessionRateStep
    \/ LoadModelStep
    \/ LoadHistoryStep
    \/ LoadStopStep
    \/ LoadDamageModelStep
    \/ LoadDamageFeedbackStep
    \/ SessionStartStep

SpecLoad == Init /\ [][NextLoad]_vars

-----------------------------------------------------------------------------
(* SpecCrash: sessions ended by a crash, possibly in the middle of a save *)

\* save_model runs to its end: the file holds model_data.
CrashSaveStep ==
    /\ UNCHANGED <<harness, threads, running>>
    /\ running
    /\ logged # <<"INFO RL model saved successfully">>
    /\ last_save' = Some(model_data)
    /\ save_model(TRUE)

\* The process dies between two calls: the files stay as they are.
CrashStep ==
    /\ UNCHANGED <<engine, now, hour, reward, retval, logged, harness, threads,
                   last_save>>
    /\ running
    /\ running' = FALSE

\* The process dies inside save_model, after open(self.model_file, "wb") has
\* emptied the file (line 346) and before pickle.dump has written all of it
\* (line 347): the file is left cut short.
CrashInSaveStep ==
    /\ UNCHANGED <<q_table, state_action_counts, recent_interactions,
                   intent_success_rates, user_preferences, learning_rate, epsilon,
                   feedback_file, interactions_file, now, hour, reward, retval,
                   logged, q_order, harness, threads, last_save>>
    /\ running
    /\ running' = FALSE
    /\ model_file' = Truncated

NextCrash ==
    \/ SessionLogStep
    \/ SessionRateStep
    \/ CrashSaveStep
    \/ CrashStep
    \/ CrashInSaveStep
    \/ SessionStartStep

SpecCrash == Init /\ [][NextCrash]_vars

-----------------------------------------------------------------------------
(* SpecThreads: record_feedback calls and save_model on concurrent threads. *)
(* The engine takes no lock, so the calls interleave between the reads and  *)
(* the writes of the shared fields                                          *)

\* Two interactions with the same state features.
ThreadCommands == <<"send mail", "send email">>

\* A call of record_feedback(command, rating) about to begin, with its locals.
Call(command, rating) ==
    [pc |-> "find", command |-> command, rating |-> rating, idx |-> 0,
     r |-> Zero, current_q |-> Zero, count |-> 0, ratings |-> <<>>,
     feedbacks |-> <<>>]

\* The decisions are recorded before any thread is started.
ThreadLogStep ==
    /\ UNCHANGED aux
    /\ threads = <<>>
    /\ Len(interactions_file) < Len(ThreadCommands)
    /\ \E intent \in Intents :
          /\ Len(interactions_file) = 0 => intent = "send_email"
          /\ log_interaction(ThreadCommands[Len(interactions_file) + 1], intent,
                             "done", DefaultUser, TRUE)

\* One call is started, or one call for each interaction.
ThreadSpawnStep ==
    /\ UNCHANGED <<engine, now, hour, reward, retval, logged, running, last_save>>
    /\ threads = <<>>
    /\ Len(recent_interactions) = Len(ThreadCommands)
    /\ harness' = Some([before |-> model_data])
    /\ \E r1 \in SessionRatings :
          \/ threads' = <<Call(ThreadCommands[1], r1)>>
          \/ \E r2 \in SessionRatings :
                threads' = <<Call(ThreadCommands[1], r1), Call(ThreadCommands[2], r2)>>

\* Lines 157-177: the rating is checked, the interaction found and marked.
ThreadFind(t) ==
    LET call == threads[t]
        idx == FindTarget(call.command)
    IN  /\ call.pc = "find"
        /\ ValidRating(call.rating)
        /\ idx # 0
        /\ recent_interactions' =
               [recent_interactions EXCEPT
                  ![idx] = [@ EXCEPT !.feedback_score = Some(call.rating),
                                     !.success = Some(IsSuccess(call.rating))]]
        /\ threads' = [threads EXCEPT ![t] = [call EXCEPT !.pc = "reward", !.idx = idx]]
        /\ UNCHANGED <<q_table, state_action_counts, intent_success_rates,
                       user_preferences, learning_rate, epsilon, feedback_file,
                       interactions_file, now, hour, reward, retval, logged, q_order,
                       model_file>>

\* Line 206: calculate_reward; its read of state_action_counts[state][action]
\* (line 239) creates the entry, with 0, when there is none.
ThreadReward(t) ==
    LET call == threads[t]
        interaction == recent_interactions[call.idx]
        r == calculate_reward(interaction)
    IN  /\ call.pc = "reward"
        /\ state_action_counts' =
               Put2(state_action_counts, interaction.state, interaction.intent,
                    Get2(state_action_counts, interaction.state, interaction.intent, 0))
        /\ reward' = Some(r)
        /\ threads' = [threads EXCEPT ![t] = [call EXCEPT !.pc = "read_q", !.r = r]]
        /\ UNCHANGED <<q_table, recent_interactions, intent_success_rates,
                       user_preferences, learning_rate, epsilon, feedback_file,
                       interactions_file, now, hour, retval, logged, q_order,
                       model_file>>

\* Line 209: current_q = self.q_table[state][action], which creates the entry,
\* with 0.0, when there is none.
ThreadReadQ(t) ==
    LET call == threads[t]
        interaction == recent_interactions[call.idx]
        current_q == Get2(q_table, interaction.state, interaction.intent, Zero)
    IN  /\ call.pc = "read_q"
        /\ q_table' = Put2(q_table, interaction.state, interaction.intent, current_q)
        /\ q_order' = InsertKey(q_order, q_table, interaction.state, interaction.intent)
        /\ threads' = [threads EXCEPT
                         ![t] = [call EXCEPT !.pc = "write_q", !.current_q = current_q]]
        /\ UNCHANGED <<state_action_counts, recent_interactions, intent_success_rates,
                       user_preferences, learning_rate, epsilon, feedback_file,
                       interactions_file, now, hour, reward, retval, logged,
                       model_file>>

\* Lines 212-213: new_q from the value read before, stored.
ThreadWriteQ(t) ==
    LET call == threads[t]
        interaction == recent_interactions[call.idx]
    IN  /\ call.pc = "write_q"
        /\ q_table' = Put2(q_table, interaction.state, interaction.intent,
                           QUpdate(call.current_q, call.r))
        /\ q_order' = InsertKey(q_order, q_table, interaction.state, interaction.intent)
        /\ threads' = [threads EXCEPT ![t] = [call EXCEPT !.pc = "read_count"]]
        /\ UNCHANGED <<state_action_counts, recent_interactions, intent_success_rates,
                       user_preferences, learning_rate, epsilon, feedback_file,
                       interactions_file, now, hour, reward, retval, logged,
                       model_file>>

\* Line 216, self.state_action_counts[state][action] += 1: the read ...
ThreadReadCount(t) ==
    LET call == threads[t]
        interaction == recent_interactions[call.idx]
        count == Get2(state_action_counts, interaction.state, interaction.intent, 0)
    IN  /\ call.pc = "read_count"
        /\ state_action_counts' =
               Put2(state_action_counts, interaction.state, interaction.intent, count)
        /\ threads' = [threads EXCEPT
                         ![t] = [call EXCEPT !.pc = "write_count", !.count = count]]
        /\ UNCHANGED <<q_table, recent_interactions, intent_success_rates,
                       user_preferences, learning_rate, epsilon, feedback_file,
                       interactions_file, now, hour, reward, retval, logged, q_order,
                       model_file>>

\* ... and the write, then the log record of line 218.
ThreadWriteCount(t) ==
    LET call == threads[t]
        interaction == recent_interactions[call.idx]
    IN  /\ call.pc = "write_count"
        /\ state_action_counts' =
               Put2(state_action_counts, interaction.state, interaction.intent,
                    call.count + 1)
        /\ logged' = <<"INFO Updated Q-value">>
        /\ threads' = [threads EXCEPT ![t] = [call EXCEPT !.pc = "read_prefs"]]
        /\ UNCHANGED <<q_table, recent_interactions, intent_success_rates,
                       user_preferences, learning_rate, epsilon, feedback_file,
                       interactions_file, now, hour, reward, retval, q_order,
                       model_file>>

\* Line 183, the append to the success history, and the right-hand side of
\* line 186: self.user_preferences[user_id].get(intent, []), which creates
\* the dict of the user when there is none.
ThreadReadPrefs(t) ==
    LET call == threads[t]
        intent == recent_interactions[call.idx].intent
        rates == IF intent \in DOMAIN intent_success_rates
                 THEN intent_success_rates[intent] ELSE <<>>
        prefs == IF DefaultUser \in DOMAIN user_preferences
                 THEN user_preferences[DefaultUser] ELSE EmptyDict
        ratings == IF intent \in DOMAIN prefs THEN prefs[intent] ELSE <<>>
    IN  /\ call.pc = "read_prefs"
        /\ intent_success_rates' =
               Put1(intent_success_rates, intent, Append(rates, IsSuccess(call.rating)))
        /\ user_preferences' = Put1(user_preferences, DefaultUser, prefs)
        /\ threads' = [threads EXCEPT
                         ![t] = [call EXCEPT !.pc = "write_prefs", !.ratings = ratings]]
        /\ UNCHANGED <<q_table, state_action_counts, recent_interactions,
                       learning_rate, epsilon, feedback_file, interactions_file, now,
                       hour, reward, retval, logged, q_order, model_file>>

\* Line 186, the store of the list read before plus the rating.
ThreadWritePrefs(t) ==
    LET call == threads[t]
        intent == recent_interactions[call.idx].intent
        prefs == IF DefaultUser \in DOMAIN user_preferences
                 THEN user_preferences[DefaultUser] ELSE EmptyDict
    IN  /\ call.pc = "write_prefs"
        /\ user_preferences' =
               Put1(user_preferences, DefaultUser,
                    Put1(prefs, intent, Append(call.ratings, call.rating)))
        /\ threads' = [threads EXCEPT ![t] = [call EXCEPT !.pc = "read_file"]]
        /\ UNCHANGED <<q_table, state_action_counts, recent_interactions,
                       intent_success_rates, learning_rate, epsilon, feedback_file,
                       interactions_file, now, hour, reward, retval, logged, q_order,
                       model_file>>

\* save_feedback, lines 293-296: the list is read from the file.
ThreadReadFile(t) ==
    LET call == threads[t]
    IN  /\ call.pc = "read_file"
        /\ threads' = [threads EXCEPT
                         ![t] = [call EXCEPT
                                   !.pc = "write_file",
                                   !.feedbacks = IF feedback_file = None THEN <<>>
                                                 ELSE feedback_file[1]]]
        /\ UNCHANGED <<engine, now, hour, reward, retval, logged>>

\* save_feedback, lines 298-301: the list read before, plus the entry, is
\* written over the file; then the log record of line 200.
ThreadWriteFile(t) ==
    LET call == threads[t]
        interaction == recent_interactions[call.idx]
        feedback_entry ==
            [timestamp |-> now, command |-> interaction.command,
             intent |-> interaction.intent, rating |-> call.rating,
             user_id |-> DefaultUser, state |-> interaction.state]
    IN  /\ call.pc = "write_file"
        /\ feedback_file' = Some(Append(call.feedbacks, feedback_entry))
        /\ now' = now + 1
        /\ logged' = <<"INFO Recorded feedback">>
        /\ retval' = None
        /\ threads' = [threads EXCEPT ![t] = [call EXCEPT !.pc = "done"]]
        /\ UNCHANGED <<q_table, state_action_counts, recent_interactions,
                       intent_success_rates, user_preferences, learning_rate, epsilon,
                       interactions_file, hour, reward, q_order, model_file>>

\* A thread runs its call up to its next read or write of a shared field.
ThreadStep ==
    /\ UNCHANGED <<harness, running, last_save>>
    /\ \E t \in 1 .. Len(threads) :
          \/ ThreadFind(t)
          \/ ThreadReward(t)
          \/ ThreadReadQ(t)
          \/ ThreadWriteQ(t)
          \/ ThreadReadCount(t)
          \/ ThreadWriteCount(t)
          \/ ThreadReadPrefs(t)
          \/ ThreadWritePrefs(t)
          \/ ThreadReadFile(t)
          \/ ThreadWriteFile(t)

\* Another thread saves the model, once, after the calls were started.
ThreadSaveStep ==
    /\ UNCHANGED aux
    /\ threads # <<>>
    /\ model_file = None
    /\ save_model(TRUE)

NextThreads ==
    \/ ThreadLogStep
    \/ ThreadSpawnStep
    \/ ThreadStep
    \/ ThreadSaveStep

SpecThreads == Init /\ [][NextThreads]_vars

-----------------------------------------------------------------------------
(* SpecSession: one engine through decisions recorded under any intent      *)
(* string, ratings, decisions and decays of the exploration rate;           *)
(* SpecSessionFair: recorded and rated decisions, the decay called again    *)
(* and again;                                                               *)
(* SpecClock: the hours pass between the calls                              *)

\* log_interaction takes the intent as the caller passes it: an intent of the
\* classifier, or any other string, such as the "unknown" of predict_intent.
FreeLogStep ==
    /\ UNCHANGED aux
    /\ Len(interactions_file) < MaxSession
    /\ ~AwaitingFeedback
    /\ \E intent \in Intents \cup {"unknown"} :
          log_interaction(DecideCommand, intent, "done", DefaultUser, TRUE)

\* decay_exploration(0.5, 0.01)
DecayStep ==
    /\ UNCHANGED aux
    /\ decay_exploration(Frac(1, 2), Frac(1, 100))

\* A decision is recorded at the hour the clock shows.
ClockLogStep ==
    /\ UNCHANGED aux
    /\ Len(interactions_file) < MaxClock
    /\ ~AwaitingFeedback
    /\ \E intent \in Intents :
          log_interaction(DecideCommand, intent, "done", DefaultUser, TRUE)

\* Twelve hours pass: datetime.now().hour moves from the morning to the
\* evening and back.
ClockStep ==
    /\ UNCHANGED <<engine, now, reward, retval, logged, aux>>
    /\ hour' = (hour + 12) % 24

NextSession ==
    \/ FreeLogStep
    \/ SessionRateStep
    \/ DecideStep
    \/ DecayStep

SpecSession == Init /\ [][NextSession]_vars

\* The decay is called again and again during a session of recorded and
\* rated decisions.
NextDecay ==
    \/ FreeLogStep
    \/ SessionRateStep
    \/ DecayStep

SpecSessionFair == Init /\ [][NextDecay]_vars /\ WF_vars(DecayStep)

NextClock ==
    \/ ClockLogStep
    \/ SessionRateStep
    \/ ClockStep

SpecClock == Init /\ [][NextClock]_vars

-----------------------------------------------------------------------------
(* SpecFeatures: get_state_features called once, on a drawn command, context *)
(* and hour of the day                                                       *)

\* The engine as constructed; the caller's command and context, and the hour
\* datetime.now() will show.
InitFeatures ==
    /\ q_table = EmptyDict
    /\ state_action_counts = EmptyDict
    /\ recent_interactions = <<>>
    /\ intent_success_rates = EmptyDict
    /\ user_preferences = EmptyDict
    /\ learning_rate = Frac(1, 10)
    /\ epsilon = Frac(1, 10)
    /\ feedback_file = None
    /\ interactions_file = <<>>
    /\ now = 0
    /\ hour \in 0 .. 23
    /\ reward = None
    /\ retval = None
    /\ logged = <<>>
    /\ q_order = EmptyDict
    /\ model_file = None
    /\ \E command \in CommandTexts,
          context \in {None} \cup {Some([has_datetime |-> d, has_recipients |-> r]) :
                                      d \in BOOLEAN, r \in BOOLEAN} :
          harness = Some([command |-> command, context |-> context])
    /\ threads = <<>>
    /\ running = TRUE
    /\ last_save = None

FeaturesStep ==
    /\ retval = None
    /\ retval' = Some(get_state_features(harness[1].command, harness[1].context, hour))
    /\ UNCHANGED <<engine, now, hour, reward, logged, aux>>

NextFeatures == FeaturesStep

SpecFeatures == InitFeatures /\ [][NextFeatures]_vars

-----------------------------------------------------------------------------
(* SpecRate: sessions of engines constructed with a learning rate inside or *)
(* outside (0, 1], with saves and restarts from the files                    *)

\* AdaptiveRLEngine(learning_rate=...): the constructor stores the rate it is
\* given, 0.1 by default, without a test of its range (line 21).
InitRate ==
    /\ q_table = EmptyDict
    /\ state_action_counts = EmptyDict
    /\ recent_interactions = <<>>
    /\ intent_success_rates = EmptyDict
    /\ user_preferences = EmptyDict
    /\ learning_rate \in {Frac(1, 10), Frac(1, 1), Frac(2, 1)}
    /\ epsilon = Frac(1, 10)
    /\ feedback_file = None
    /\ interactions_file = <<>>
    /\ now = 0
    /\ hour \in Hours
    /\ reward = None
    /\ retval = None
    /\ logged = <<>>
    /\ q_order = EmptyDict
    /\ model_file = None
    /\ harness = None
    /\ threads = <<>>
    /\ running = TRUE
    /\ last_save = None

NextRate ==
    \/ ClockLogStep
    \/ SessionRateStep
    \/ SnapshotSaveStep
    \/ SnapshotRestartStep

SpecRate == InitRate /\ [][NextRate]_vars

-----------------------------------------------------------------------------
(* Properties of feedback resolution and application, checked under Spec *)

FeedbackArgs == Commands \cup {UnknownCommand}

Range(seq) ==
    {seq[i] : i \in 1 .. Len(seq)}

\* The index of the newest interaction whose command text is c (0: none).
NewestWithText(c) ==
    LET same == {i \in 1 .. Len(recent_interactions) : recent_interactions[i].command = c}
    IN  IF same = {} THEN 0 ELSE CHOOSE j \in same : \A k \in same : k <= j

\* d2 is d1 except, at most, at the pair (s, a): no other pair appears,
\* disappears or changes.
SameExceptAt(d1, d2, s, a) ==
    \A s2 \in (DOMAIN d1) \cup (DOMAIN d2) :
        \A a2 \in (IF s2 \in DOMAIN d1 THEN DOMAIN d1[s2] ELSE {})
                  \cup (IF s2 \in DOMAIN d2 THEN DOMAIN d2[s2] ELSE {}) :
            (s2 # s \/ a2 # a) =>
                /\ Has2(d1, s2, a2) /\ Has2(d2, s2, a2)
                /\ d1[s2][a2] = d2[s2][a2]

\* The buffer holds an older interaction with text c and another intent than
\* the newest interaction with text c.
TwoIntentsSameText(c) ==
    /\ NewestWithText(c) # 0
    /\ \E i \in 1 .. NewestWithText(c) - 1 :
          /\ recent_interactions[i].command = c
          /\ recent_interactions[i].intent # recent_interactions[NewestWithText(c)].intent

\* What a feedback (c, rating) does when decisions A then B share the text c.
OnlyNewestUpdated(c, rating) ==
    LET b == NewestWithText(c)
        B == recent_interactions[b]
    IN  /\ Len(recent_interactions') = Len(recent_interactions)
        /\ recent_interactions'[b] =
               [B EXCEPT !.feedback_score = Some(rating), !.success = Some(rating >= 3)]
        /\ \A k \in 1 .. Len(recent_interactions) :
               k # b => recent_interactions'[k] = recent_interactions[k]
        /\ SameExceptAt(q_table, q_table', B.state, B.intent)
        /\ SameExceptAt(state_action_counts, state_action_counts', B.state, B.intent)
        /\ Has2(q_table', B.state, B.intent)
        /\ state_action_counts'[B.state][B.intent] =
               Get2(state_action_counts, B.state, B.intent, 0) + 1

\* C1: most-recent-wins. When two decisions with the same command text and
\* different intents A then B are in the buffer, a feedback submitted by that
\* text rates the B interaction alone, changes only the (state, B) value and
\* visit count, and leaves every other interaction and pair as it was.
C1_MostRecentWins ==
    [][\A c \in Commands :
          TwoIntentsSameText(c) =>
              \A rating \in 1 .. 5, user_id \in Users, io_ok \in BOOLEAN :
                  record_feedback(c, rating, user_id, io_ok)
                      => OnlyNewestUpdated(c, rating)]_vars

\* A reached state of C1's case: A (older) unrated and without a pair in the
\* store, B (newer, same text, other intent) rated and with its pair stored.
C1_Witness ==
    \E i, j \in 1 .. Len(recent_interactions) :
        /\ i < j
        /\ recent_interactions[i].command = recent_interactions[j].command
        /\ recent_interactions[i].intent # recent_interactions[j].intent
        /\ recent_interactions[i].feedback_score = None
        /\ recent_interactions[j].feedback_score # None
        /\ Has2(q_table, recent_interactions[j].state, recent_interactions[j].intent)
        /\ ~Has2(q_table, recent_interactions[i].state, recent_interactions[i].intent)

\* The state a rejected feedback must leave alone.
FeedbackState ==
    <<q_table, state_action_counts, intent_success_rates, user_preferences,
      recent_interactions, feedback_file>>

\* C2: a rating outside 1..5 leaves the Value Store, the visit counters, the
\* success history, the user preferences, every interaction record and the
\* feedback log unchanged: a step that changes any of them is no such call.
C2_InvalidRatingNoMutation ==
    [][\/ UNCHANGED FeedbackState
       \/ ~\E c \in FeedbackArgs, rating \in Ratings \ (1 .. 5), user_id \in Users,
              io_ok \in BOOLEAN :
              record_feedback(c, rating, user_id, io_ok)]_vars

\* A reached state of C2's case: an invalid rating was just rejected while the
\* buffer held an interaction and the store held learned values.
C2_Witness ==
    /\ logged = <<"WARNING Invalid rating">>
    /\ recent_interactions # <<>>
    /\ q_table # EmptyDict

\* No interaction in the buffer carries the text (or id) given.
NothingMatches(c) ==
    \A i \in 1 .. Len(recent_interactions) :
        /\ recent_interactions[i].command # c
        /\ "interaction_id" \notin DOMAIN recent_interactions[i]

\* C3: a feedback with a valid rating that resolves to no interaction of the
\* buffer mutates nothing: a step that changes the store, the counters, the
\* history, the preferences, a buffered record or the feedback log is no such
\* call.
C3_NotFoundNoMutation ==
    [][\/ UNCHANGED FeedbackState
       \/ ~\E c \in FeedbackArgs :
              /\ NothingMatches(c)
              /\ \E rating \in 1 .. 5, user_id \in Users, io_ok \in BOOLEAN :
                     record_feedback(c, rating, user_id, io_ok)]_vars

\* A reached state of C3's case: a feedback was just turned away as unresolved
\* while the buffer held interactions and the store held learned values.
C3_Witness ==
    /\ logged = <<"WARNING No interaction found">>
    /\ recent_interactions # <<>>
    /\ q_table # EmptyDict

\* C4 (as claimed): record_feedback returns success, NotFound or InvalidRating
\* according to what it did.
C4_OutcomeReturned ==
    /\ "WARNING Invalid rating" \in Range(logged) => retval = Some("InvalidRating")
    /\ "WARNING No interaction found" \in Range(logged) => retval = Some("NotFound")
    /\ "INFO Recorded feedback" \in Range(logged) => retval = Some("success")

\* The four effects of one feedback application, as seen across a step.
ValueStoreUpdated ==
    q_table' # q_table \/ state_action_counts' # state_action_counts
HistoryAppended ==
    intent_success_rates' # intent_success_rates
PreferenceAppended ==
    user_preferences' # user_preferences
AuditRecordAppended ==
    feedback_file' # feedback_file

\* C5 (as claimed): every call has all four effects of a feedback application
\* or none of them.
C5_AllOrNothing ==
    [][\/ ValueStoreUpdated /\ HistoryAppended /\ PreferenceAppended /\ AuditRecordAppended
       \/ ~ValueStoreUpdated /\ ~HistoryAppended /\ ~PreferenceAppended
          /\ ~AuditRecordAppended]_vars

\* C6 (as claimed): a feedback score and outcome, once set, never change, and
\* the store is updated only by a step that rates an interaction not rated
\* before.
C6_WriteOnce ==
    [][/\ \A i \in 1 .. Len(recent_interactions) :
             recent_interactions[i].feedback_score # None =>
                 /\ i <= Len(recent_interactions')
                 /\ recent_interactions'[i].feedback_score
                        = recent_interactions[i].feedback_score
                 /\ recent_interactions'[i].success = recent_interactions[i].success
       /\ ValueStoreUpdated =>
             \E i \in 1 .. Len(recent_interactions) :
                 /\ recent_interactions[i].feedback_score = None
                 /\ recent_interactions'[i].feedback_score # None]_vars

\* The end-to-end scenario: from the empty engine, one decision
\* ("schedule meeting tomorrow at 4pm", calendar_event) and one feedback, 5.
ScenarioDone ==
    /\ Len(recent_interactions) = 1
    /\ recent_interactions[1].command = "schedule meeting tomorrow at 4pm"
    /\ recent_interactions[1].intent = "calendar_event"
    /\ recent_interactions[1].feedback_score = Some(5)
    /\ FeedbackCount = 1

\* C10 (as claimed): the scenario yields reward 0.6 and the value 0.06.
C10_Original ==
    ScenarioDone =>
        /\ reward = Some(Frac(6, 10))
        /\ Get2(q_table, recent_interactions[1].state, "calendar_event", Zero) = Frac(6, 100)

\* C10 (amended): the scenario yields reward 1.0, which is 1.0 + 0.1 clamped,
\* and takes the value of (state, calendar_event) from 0.0 to 0.1.
C10_Scenario ==
    ScenarioDone =>
        /\ reward = Some(One)
        /\ Has2(q_table, recent_interactions[1].state, "calendar_event")
        /\ q_table[recent_interactions[1].state]["calendar_event"] = Frac(1, 10)
        /\ learning_rate = Frac(1, 10)

\* A reached state of C10's case.
C10_Witness ==
    /\ ScenarioDone
    /\ recent_interactions[1].state = "calendar|medium|morning"
    /\ state_action_counts[recent_interactions[1].state]["calendar_event"] = 1

-----------------------------------------------------------------------------
(* The bounded buffer, checked under SpecLedger *)

Min(a, b) ==
    IF a <= b THEN a ELSE b

\* An interaction as it was issued: before any feedback touched it.
AsIssued(interaction) ==
    [interaction EXCEPT !.success = None, !.feedback_score = None]

\* C7: the recent-interaction buffer is a bounded FIFO of capacity 1000. With
\* n records issued (interactions.jsonl holds them all, in issue order) it
\* holds exactly the newest min(n, 1000) of them in issue order, and a command
\* text whose records were all evicted resolves to no interaction.
C7_BoundedFifo ==
    LET n == Len(interactions_file)
        kept == Len(recent_interactions)
    IN  /\ kept <= 1000
        /\ kept = Min(n, maxlen)
        /\ \A i \in 1 .. kept :
               AsIssued(recent_interactions[i]) = interactions_file[n - kept + i]
        /\ \A c \in Commands :
               (\A i \in (n - kept + 1) .. n : interactions_file[i].command # c)
                   => FindTarget(c) = 0

\* A reached state of C7's case: more than 1000 records were issued, the
\* buffer is full, the oldest record's command text is gone from it, and a
\* feedback for that text was just turned away.
C7_Witness ==
    /\ Len(interactions_file) = maxlen + 1
    /\ Len(recent_interactions) = maxlen
    /\ interactions_file[1].command = "send mail"
    /\ recent_interactions[1].timestamp = interactions_file[2].timestamp
    /\ FindTarget("send mail") = 0
    /\ logged = <<"WARNING No interaction found">>

-----------------------------------------------------------------------------
(* The reward, checked under SpecReward *)

\* C8: every reward calculate_reward produces lies in [-1, 1].
C8_RewardInRange ==
    reward # None =>
        /\ FLe(Frac(-1, 1), reward[1])
        /\ FLe(reward[1], Frac(1, 1))

\* A reached state of C8's case: a rating of 5 on an intent whose last
\* outcomes were all successes, where the sum exceeds 1 and the reward is 1.
C8_Witness ==
    /\ reward = Some(Frac(1, 1))
    /\ recent_interactions[1].feedback_score = Some(5)
    /\ RewardIntent \in DOMAIN intent_success_rates
    /\ Len(intent_success_rates[RewardIntent]) = 11
    /\ \A i \in 1 .. 11 : intent_success_rates[RewardIntent][i]

\* The last ten entries of a history (all of it when shorter).
LastTen(h) ==
    [i \in 1 .. Min(10, Len(h)) |-> h[Len(h) - Min(10, Len(h)) + i]]

\* The reward as the specification states it, from the rating (or None), the
\* intent's history (or None) and the pair's visit count.
StatedReward(score, history, visits) ==
    LET base == IF score = None THEN Frac(0, 1) ELSE Frac(score[1] - 3, 2)
        window == LastTen(history[1])
        successes == Cardinality({i \in DOMAIN window : window[i]})
        successBonus ==
            IF history = None THEN Frac(0, 1)
            ELSE FMul(FSub(Frac(successes, Len(window)), Frac(1, 2)), Frac(2, 10))
        explorationBonus == Frac(1, 10 * (1 + visits))
        total == FAdd(FAdd(base, successBonus), explorationBonus)
    IN  IF FLe(Frac(1, 1), total) THEN Frac(1, 1)
        ELSE IF FLe(total, Frac(-1, 1)) THEN Frac(-1, 1)
        ELSE total

\* The inputs of the reward just computed, read back from the engine.
RewardHistory ==
    IF RewardIntent \in DOMAIN intent_success_rates
    THEN Some(intent_success_rates[RewardIntent]) ELSE None

RewardVisits ==
    Get2(state_action_counts, recent_interactions[1].state, RewardIntent, 0)

\* C9: calculate_reward is clamp(base + successBonus + explorationBonus, -1, 1)
\* with the three terms as stated; a history longer than ten entries gives the
\* reward of its last ten.
C9_RewardFormula ==
    reward # None =>
        /\ reward[1] = StatedReward(recent_interactions[1].feedback_score,
                                    RewardHistory, RewardVisits)
        /\ (RewardHistory # None /\ Len(RewardHistory[1]) > 10) =>
               reward[1] = StatedReward(recent_interactions[1].feedback_score,
                                        Some(Tail(RewardHistory[1])), RewardVisits)

\* A reached state of C9's case: a reward computed from an eleven-entry
\* history whose oldest entry (a success) lies outside the window of failures.
C9_Witness ==
    /\ reward # None
    /\ recent_interactions[1].feedback_score = Some(4)
    /\ RewardHistory # None
    /\ Len(RewardHistory[1]) = 11
    /\ RewardHistory[1][1]
    /\ \A i \in 2 .. 11 : ~RewardHistory[1][i]
    /\ RewardVisits = 1
    /\ reward[1] = Frac(45, 100)

-----------------------------------------------------------------------------
(* Decisions, checked under SpecDecide *)

\* The confidence a formatted field of the prediction record stands for.
Confidence(text) ==
    CASE text = "0.00" -> Frac(0, 1)
      [] text = "0.30" -> Frac(3, 10)
      [] text = "0.50" -> Frac(1, 2)
      [] text = "0.80" -> Frac(4, 5)
      [] text = "0.90" -> Frac(9, 10)

\* The base prediction and the RL candidate of the decision just taken, as
\* its record reports them.
ReportedBase ==
    [intent |-> logged[2], confidence |-> Confidence(logged[3])]

ReportedRL ==
    [intent |-> logged[4], confidence |-> Confidence(logged[5])]

\* a > b on two fractions, by cross-multiplication over the least common
\* denominator.
Above(a, b) ==
    LET g == GCD(a.d, b.d)
    IN  a.n * (b.d \div g) > b.n * (a.d \div g)

\* C11: arbitration precedence. The decision returned is the base prediction
\* when the base confidence is above 0.8, the RL candidate when the base
\* confidence is under 0.3 and the candidate's is above 0.6, and the base
\* prediction in every other case.
C11_ArbitrationPrecedence ==
    IsPrediction(logged) =>
        LET base == ReportedBase
            rl == ReportedRL
            expected ==
                IF Above(base.confidence, Frac(8, 10)) THEN base
                ELSE IF Above(Frac(3, 10), base.confidence)
                        /\ Above(rl.confidence, Frac(6, 10)) THEN rl
                ELSE base
        IN  retval = Some(<<expected.intent, expected.confidence>>)

\* A reached state of C11's case: a weak base prediction and a strong RL
\* candidate, and the candidate returned.
C11_Witness ==
    /\ logged = <<"INFO Intent prediction", "unknown", "0.00",
                  "calendar_event", "0.80", "calendar_event", "0.80">>
    /\ retval = Some(<<"calendar_event", Frac(4, 5)>>)

\* The shared state a decision must leave alone.
DecisionFrame ==
    <<q_table, state_action_counts, intent_success_rates, user_preferences,
      recent_interactions, epsilon>>

\* C12: a decision has no side effect. A step that changes the Value Store
\* (its keys included), the visit counters, the success history, the user
\* preferences, the buffer or epsilon is no call of get_enhanced_intent,
\* whatever the command, seen or unseen.
C12_DecisionNoSideEffect ==
    [][\/ UNCHANGED DecisionFrame
       \/ ~\E command \in {DecideCommand, UnknownCommand}, label \in Labels,
              confidence \in Probabilities, u \in Draws :
              \E choice \in Choices(u) :
                  get_enhanced_intent(command, label, confidence, u, choice)]_vars

\* A reached state of C12's case: a decision was just taken on a command whose
\* state the store does not hold (the RL candidate is the base prediction),
\* while the store holds other states.
C12_Witness ==
    /\ IsPrediction(logged)
    /\ logged[2] = "send_email" /\ logged[3] = "0.30"
    /\ logged[4] = "send_email" /\ logged[5] = "0.30"
    /\ q_table # EmptyDict
    /\ get_state_features(UnknownCommand, None, hour) \notin DOMAIN q_table

\* The place of an action in a state's insertion order.
Position(order, action) ==
    CHOOSE i \in 1 .. Len(order) : order[i] = action

\* C13: on the exploit branch (the candidate's confidence is 0.8) the RL
\* candidate has the maximal value of the state, and among the actions that
\* share that value it is the one inserted first; this holds for a store that
\* feedback built and for one a new engine loaded from a saved model.
C13_FirstInsertedMaximal ==
    (IsPrediction(logged) /\ logged[5] = "0.80") =>
        LET state == get_state_features(DecideCommand, None, hour)
            q_values == q_table[state]
            order == q_order[state]
            best == logged[4]
        IN  /\ Range(order) = DOMAIN q_values
            /\ best \in DOMAIN q_values
            /\ \A a \in DOMAIN q_values :
                   /\ ~Above(q_values[a], q_values[best])
                   /\ q_values[a] = q_values[best] =>
                          Position(order, best) <= Position(order, a)

\* A reached state of C13's case: an engine built from a saved model (its
\* buffer is empty) whose store holds send_email, inserted first, and
\* calendar_event at the same value, and the candidate is send_email.
C13_Witness ==
    /\ IsPrediction(logged) /\ logged[5] = "0.80" /\ logged[4] = "send_email"
    /\ recent_interactions = <<>>
    /\ model_file # None
    /\ LET state == get_state_features(DecideCommand, None, hour)
       IN  /\ state \in DOMAIN q_table
           /\ q_order[state] = <<"send_email", "calendar_event">>
           /\ q_table[state]["send_email"] = q_table[state]["calendar_event"]

-----------------------------------------------------------------------------
(* Persistence, checked under SpecSnapshot *)

\* C14: round trip. A new engine built from the files right after a completed
\* save_model holds the Value Store and the visit counters of the engine that
\* saved: the same pairs (so the same defaults for every other pair), the same
\* values and the same counts.
C14_RoundTrip ==
    [][\/ UNCHANGED <<q_table, state_action_counts>>
       \/ ~(logged = <<"INFO RL model saved successfully">> /\ init_engine)]_vars

\* A reached state of C14's case: an engine just built from a saved model
\* whose store holds three states with two actions each, every pair counted.
C14_Witness ==
    /\ logged = <<"INFO Loaded feedback entries", "INFO RL model loaded successfully">>
    /\ recent_interactions = <<>>
    /\ Cardinality(DOMAIN q_table) >= 3
    /\ \A state \in DOMAIN q_table : Cardinality(DOMAIN q_table[state]) >= 2
    /\ DOMAIN state_action_counts = DOMAIN q_table
    /\ \A state \in DOMAIN q_table :
           /\ DOMAIN state_action_counts[state] = DOMAIN q_table[state]
           /\ \A action \in DOMAIN q_table[state] :
                  /\ state_action_counts[state][action] = 1
                  /\ q_table[state][action] # Zero

-----------------------------------------------------------------------------
(* Restart, checked under SpecRestart *)

\* The fields the comparison of the two engines is about.
Learned(mem) ==
    [q_table |-> mem.q_table, state_action_counts |-> mem.state_action_counts,
     intent_success_rates |-> mem.intent_success_rates,
     user_preferences |-> mem.user_preferences, epsilon |-> mem.epsilon]

\* The restarted engine has been given every operation of the script.
Replayed ==
    /\ harness # None
    /\ harness[1].phase = "restarted"
    /\ harness[1].pos > Len(harness[1].script)

\* C15: restart transparency. Once the engine constructed from the saved files
\* has been given the operations the running engine was given after the save,
\* its Value Store, visit counters, success history, preferences and epsilon
\* equal those the running engine ended in.
C15_RestartTransparent ==
    Replayed => Learned(memory) = Learned(harness[1].reference[1])

-----------------------------------------------------------------------------
(* Loading, checked under SpecLoad *)

\* The structures the loaders fill.
Structures ==
    <<q_table, state_action_counts, intent_success_rates, user_preferences>>

\* The last call was load_feedback_history, or load_model, and it read a file.
HistoryJustLoaded ==
    logged \in {<<"INFO Loaded feedback entries">>,
                <<"ERROR Failed to load feedback history">>}

ModelJustLoaded ==
    logged \in {<<"INFO RL model loaded successfully">>,
                <<"ERROR Failed to load RL model">>}

\* C16: loading is idempotent and safe on a missing file. load_model and
\* load_feedback_history change none of the Value Store, the counters, the
\* success history and the preferences when their file is absent, nor when
\* the call before them was the same load of the same file.
C16_LoadIdempotent ==
    [][\/ UNCHANGED Structures
       \/ ~ \/ (feedback_file = None \/ HistoryJustLoaded) /\ load_feedback_history
            \/ (model_file = None \/ ModelJustLoaded) /\ load_model]_vars

\* A loader logged a failure.
LoadFailed(records) ==
    \E i \in 1 .. Len(records) :
        records[i] \in {"ERROR Failed to load RL model",
                        "ERROR Failed to load feedback history"}

\* C17: a failed load leaves empty structures. When an engine is constructed
\* and one of its loaders fails on its file, the engine starts with the Value
\* Store, the visit counters, the success history and the preferences all
\* empty.
C17_FailedLoadEmpty ==
    [][\/ Structures' = <<EmptyDict, EmptyDict, EmptyDict, EmptyDict>>
       \/ ~(init_engine /\ LoadFailed(logged'))]_vars

-----------------------------------------------------------------------------
(* Crashes, checked under SpecCrash *)

\* The fields save_model captures.
Captured(mem) ==
    [q_table |-> mem.q_table, state_action_counts |-> mem.state_action_counts,
     intent_success_rates |-> mem.intent_success_rates,
     user_preferences |-> mem.user_preferences,
     learning_rate |-> mem.learning_rate, epsilon |-> mem.epsilon]

\* C18: crash safety. Whenever an engine is started after a crash and some
\* save_model has completed before, the engine starts in the state the last
\* completed save captured.
C18_CrashSafe ==
    [][\/ last_save = None
       \/ Captured(memory') = Captured(last_save[1])
       \/ ~(~running /\ init_engine)]_vars

-----------------------------------------------------------------------------
(* Concurrency, checked under SpecThreads *)

\* Every call that was started has returned.
AllDone ==
    /\ threads # <<>>
    /\ \A t \in 1 .. Len(threads) : threads[t].pc = "done"

RECURSIVE SumCounts(_, _)
SumCounts(d, pairs) ==
    IF pairs = {} THEN 0
    ELSE LET p == CHOOSE x \in pairs : TRUE
         IN  d[p[1]][p[2]] + SumCounts(d, pairs \ {p})

\* The visits counted over all the pairs.
VisitCount ==
    SumCounts(state_action_counts,
              {<<state, action>> \in (DOMAIN state_action_counts) \X Intents :
                  Has2(state_action_counts, state, action)})

\* C19: no lost update. Once the concurrent record_feedback calls for
\* different interactions have returned, every one of them is present as in a
\* serial run: one visit counted, one outcome in the success history, one
\* rating in the preferences and one record in the feedback file for each.
C19_NoLostUpdate ==
    AllDone =>
        /\ VisitCount = Len(threads)
        /\ FeedbackCount = Len(threads)
        /\ PreferenceCount = Len(threads)
        /\ feedback_file # None
        /\ Len(feedback_file[1]) = Len(threads)

\* The entries of a dict of lists under a key, none when the key is absent.
Entries(d, key) ==
    IF key \in DOMAIN d THEN d[key] ELSE <<>>

Ratings2(d, user_id, intent) ==
    IF user_id \in DOMAIN d THEN Entries(d[user_id], intent) ELSE <<>>

\* C20: no torn snapshot. A snapshot written by save_model while the one
\* record_feedback call is in progress holds the state between complete
\* applications: when it holds the call's new value for the pair, it also
\* holds the call's visit, its outcome in the success history and its rating
\* in the preferences.
C20_NoTornSnapshot ==
    (Len(threads) = 1 /\ model_file # None) =>
        LET saved == model_file[1].data
            before == harness[1].before
            state == recent_interactions[1].state
            intent == recent_interactions[1].intent
        IN  Get2(saved.q_table, state, intent, Zero)
                # Get2(before.q_table, state, intent, Zero)
            => /\ Get2(saved.state_action_counts, state, intent, 0)
                     = Get2(before.state_action_counts, state, intent, 0) + 1
               /\ Len(Entries(saved.intent_success_rates, intent))
                     = Len(Entries(before.intent_success_rates, intent)) + 1
               /\ Len(Ratings2(saved.user_preferences, DefaultUser, intent))
                     = Len(Ratings2(before.user_preferences, DefaultUser, intent)) + 1

-----------------------------------------------------------------------------
(* The store's keys and the exploration rate, checked under SpecSession *)

\* The fixed enumeration of actions.
Enumeration ==
    {possible_intents[i] : i \in 1 .. Len(possible_intents)}

\* The action keys of a nested dict.
ActionKeys(d) ==
    UNION {DOMAIN d[state] : state \in DOMAIN d}

\* C21: actions form a closed enumeration. Every action key of the Value
\* Store and of the visit counters, and every RL candidate of an explore or
\* exploit branch, is one of the eight actions of the enumeration.
C21_ClosedEnumeration ==
    /\ ActionKeys(q_table) \subseteq Enumeration
    /\ ActionKeys(state_action_counts) \subseteq Enumeration
    /\ (IsPrediction(logged) /\ logged[5] \in {"0.50", "0.80"})
           => logged[4] \in Enumeration

-----------------------------------------------------------------------------
(* Interaction ids, checked under Spec *)

\* C22 (as claimed): log_interaction returns an interaction id for the record
\* it creates, the id the record carries, by which a feedback can name it.
C22_IdReturned ==
    [][\/ /\ retval' # None
          /\ interaction_id(recent_interactions'[Len(recent_interactions')]) = retval'
       \/ ~\E command \in Commands, intent \in Intents, result \in Results,
              io_ok \in LogWrites :
              log_interaction(command, intent, result, DefaultUser, io_ok)]_vars

-----------------------------------------------------------------------------
(* The update of the value store, checked under SpecClock *)

\* The pairs of a nested dict.
Pairs(d) ==
    {<<s, a>> \in (DOMAIN d) \X ActionKeys(d) : Has2(d, s, a)}

\* C23: an applied feedback moves exactly the entry of the interaction's
\* (state, intent) pair, from old (0 when absent) to
\* old + learning_rate * (reward - old), adds one to exactly that pair's visit
\* count, and leaves every other entry and count as it was.
C23_ExactUpdate ==
    [][(AwaitingFeedback /\ feedback_file' # feedback_file) =>
          LET t == recent_interactions[Len(recent_interactions)]
              old == IF Has2(q_table, t.state, t.intent)
                     THEN q_table[t.state][t.intent] ELSE Zero
              visits == IF Has2(state_action_counts, t.state, t.intent)
                        THEN state_action_counts[t.state][t.intent] ELSE 0
              r == reward'[1]
          IN  /\ Has2(q_table', t.state, t.intent)
              /\ q_table'[t.state][t.intent] =
                     FAdd(old, FMul(learning_rate, FSub(r, old)))
              /\ state_action_counts'[t.state][t.intent] = visits + 1
              /\ SameExceptAt(q_table, q_table', t.state, t.intent)
              /\ SameExceptAt(state_action_counts, state_action_counts',
                              t.state, t.intent)]_vars

\* A feedback has just been applied to a pair visited before, while the store
\* holds another pair.
C23_Witness ==
    /\ Len(logged) = 2 /\ logged[1] = "INFO Updated Q-value"
    /\ LET t == recent_interactions[Len(recent_interactions)]
       IN  /\ state_action_counts[t.state][t.intent] >= 2
           /\ Pairs(q_table) \ {<<t.state, t.intent>>} # {}


\* The floor and the rate DecayStep passes.
Floor == Frac(1, 100)
Halved(x) == [n |-> x.n, d |-> 2 * x.d]

Decayed == logged = <<"INFO Exploration rate decayed">>

\* C24: a decay sets epsilon to the larger of the floor and epsilon times the
\* rate and changes no other field of the engine; after a decay epsilon is at
\* least the floor; and decays repeated with a rate below one bring epsilon to
\* the floor, where it stays.
C24_DecayToFloor ==
    /\ [][Decayed' =>
             /\ epsilon' = (IF Above(Halved(epsilon), Floor)
                            THEN Halved(epsilon) ELSE Floor)
             /\ UNCHANGED <<q_table, q_order, state_action_counts,
                            recent_interactions, intent_success_rates,
                            user_preferences, learning_rate, feedback_file,
                            interactions_file, model_file>>]_vars
    /\ [](Decayed => ~Above(Floor, epsilon))
    /\ <>[](epsilon = Floor)

\* A decay has met the floor: half of epsilon was below it.
C24_Witness ==
    /\ Decayed
    /\ epsilon = Floor
    /\ q_table # EmptyDict

-----------------------------------------------------------------------------
(* The state key, checked under SpecFeatures *)

\* The words of each command text, and the topics it has a keyword of.
StatedWords ==
    [command \in CommandTexts |->
        CASE command = "" -> 0
          [] command \in {"send mail", "send email", "Open Google", "launch it"} -> 2
          [] command = "play some music" -> 3
          [] command = "schedule meeting tomorrow at 4pm" -> 5
          [] command = "open the app and run it now" -> 7
          [] command = "please find and send the mail to the whole team" -> 10]

StatedMentions ==
    [command \in CommandTexts |->
        CASE command \in {"", "play some music"} -> {}
          [] command = "schedule meeting tomorrow at 4pm" -> {"calendar"}
          [] command \in {"send mail", "send email"} -> {"email"}
          [] command = "Open Google" -> {"search", "app"}
          [] command \in {"launch it", "open the app and run it now"} -> {"app"}
          [] command = "please find and send the mail to the whole team" ->
               {"email", "search"}]

\* The tags the key is stated to hold.
StatedTags(command, context, h) ==
    LET length == IF StatedWords[command] <= 3 THEN "short"
                  ELSE IF StatedWords[command] <= 7 THEN "medium" ELSE "long"
        time == IF h \in 6 .. 11 THEN "morning"
                ELSE IF h \in 12 .. 17 THEN "afternoon"
                ELSE IF h \in 18 .. 21 THEN "evening" ELSE "night"
        order == <<"calendar", "email", "search", "app">>
        hits == {k \in 1 .. 4 : order[k] \in StatedMentions[command]}
        topic == IF hits = {} THEN {}
                 ELSE {order[CHOOSE k \in hits : \A j \in hits : k <= j]}
        flags == IF context = None THEN {}
                 ELSE {tag \in {"time_specific", "multi_user"} :
                          \/ tag = "time_specific" /\ context[1].has_datetime
                          \/ tag = "multi_user" /\ context[1].has_recipients}
    IN  {length, time} \cup topic \cup flags

\* The tags in lexicographic order, joined with "|".
RECURSIVE Joined(_)
Joined(tags) ==
    IF tags = <<>> THEN ""
    ELSE IF Len(tags) = 1 THEN tags[1]
    ELSE tags[1] \o "|" \o Joined(Tail(tags))

StatedKey(command, context, h) ==
    LET tags == StatedTags(command, context, h)
        Keep(tag) == tag \in tags
    IN  Joined(SelectSeq(TagOrder, Keep))

\* C25: the key is the function of (command, context, hour) the description
\* gives: one length tag, one time-of-day tag, the first matching topic if
\* any, a flag tag for each context flag that is set, sorted and joined with
\* "|".
C25_StateKey ==
    retval # None =>
        retval[1] = StatedKey(harness[1].command, harness[1].context, hour)

\* The key of a long command with keywords of two topics, both context flags
\* set, at the last hour of the evening.
C25_Witness ==
    /\ retval = Some("email|evening|long|multi_user|time_specific")
    /\ harness[1].command = "please find and send the mail to the whole team"
    /\ hour = 21

-----------------------------------------------------------------------------
(* Exploration and the decision returned, checked under SpecDecide *)

\* The record of a decision tells the branch taken: the candidate's
\* confidence is 0.5 on the explore branch and 0.8 on the exploit branch, and
\* the base prediction's own otherwise; no base confidence here is 0.5 or 0.8.
Explored == logged[5] = "0.50"
Exploited == logged[5] = "0.80"

\* C26: exploration never changes the outcome of a decision. On the explore
\* branch the decision returned is the base prediction; the decision has
\* another intent than the base prediction only when the exploit branch was
\* taken, on a state with entries, and the base confidence is under 0.3; and
\* its confidence is the base confidence or 0.8.
C26_ExplorationHarmless ==
    IsPrediction(logged) =>
        LET base == ReportedBase
            returned == retval[1]
        IN  /\ Explored => returned = <<base.intent, base.confidence>>
            /\ returned[1] # base.intent =>
                   /\ Exploited
                   /\ \E state \in DOMAIN q_table : returned[1] \in DOMAIN q_table[state]
                   /\ Above(Frac(3, 10), base.confidence)
            /\ returned[2] \in {base.confidence, Frac(8, 10)}

\* A decision on the explore branch, for a state with entries and a base
\* confidence under 0.3: the candidate drawn is another intent than the base
\* prediction, and the base prediction is returned.
C26_Witness ==
    /\ IsPrediction(logged)
    /\ Explored
    /\ logged[3] = "0.00"
    /\ logged[4] # logged[2]
    /\ retval = Some(<<logged[2], Zero>>)
    /\ q_table # EmptyDict

-----------------------------------------------------------------------------
(* The accounts of the applied feedbacks, checked under SpecSession *)

\* The feedbacks applied so far, each one a record of the feedback file.
Applied ==
    IF feedback_file = None THEN 0 ELSE Len(feedback_file[1])

\* C27: after any sequence of recorded decisions, feedbacks, decisions asked
\* and decays, the value store and the visit counters hold the same pairs,
\* every state present holds an action, every visit count is at least one,
\* and the visit counts add up to the number of applied feedbacks, which is
\* also the total length of the success histories and the number of ratings
\* stored in the preferences.
C27_Accounting ==
    /\ Pairs(q_table) = Pairs(state_action_counts)
    /\ DOMAIN q_table = DOMAIN state_action_counts
    /\ \A state \in DOMAIN q_table :
           DOMAIN q_table[state] # {} /\ DOMAIN state_action_counts[state] # {}
    /\ \A p \in Pairs(state_action_counts) : state_action_counts[p[1]][p[2]] >= 1
    /\ SumCounts(state_action_counts, Pairs(state_action_counts)) = Applied
    /\ FeedbackCount = Applied
    /\ PreferenceCount = Applied

\* Two feedbacks have been applied, the exploration rate has decayed and a
\* decision has just been asked.
C27_Witness ==
    /\ Applied = 2
    /\ epsilon # Frac(1, 10)
    /\ IsPrediction(logged)

-----------------------------------------------------------------------------
(* The range of the stored values, checked under SpecRate *)

\* C28: with a learning rate in (0, 1] and a store that started empty, every
\* stored value lies in [-1, 1] after any sequence of applied feedbacks. (An
\* engine takes a rate outside (0, 1] as well, from its constructor and from
\* the model file; C28_Witness is a store such an engine has taken out of
\* the range.)
C28_ValueBound ==
    (Above(learning_rate, Zero) /\ ~Above(learning_rate, One)) =>
        \A p \in Pairs(q_table) :
            /\ ~Above(q_table[p[1]][p[2]], One)
            /\ ~Above(FNeg(One), q_table[p[1]][p[2]])

\* An engine built from the files of an engine constructed with the rate 2:
\* the load has taken the rate, and a stored value is above 1.
C28_Witness ==
    /\ learning_rate = Frac(2, 1)
    /\ "INFO RL model loaded successfully" \in Range(logged)
    /\ \E p \in Pairs(q_table) : Above(q_table[p[1]][p[2]], One)

-----------------------------------------------------------------------------
(* The order inside one feedback application, checked under SpecClock *)

\* C29: the reward of a feedback is computed from the pair's visit count and
\* the intent's success history as they were before this feedback: the visit
\* is counted and the outcome appended after the reward is computed.
C29_RewardBeforeUpdate ==
    [][(AwaitingFeedback /\ feedback_file' # feedback_file) =>
          LET t == recent_interactions[Len(recent_interactions)]
              rating == recent_interactions'[Len(recent_interactions)].feedback_score
              history == IF t.intent \in DOMAIN intent_success_rates
                         THEN Some(intent_success_rates[t.intent]) ELSE None
              visits == IF Has2(state_action_counts, t.state, t.intent)
                        THEN state_action_counts[t.state][t.intent] ELSE 0
          IN  /\ reward' = Some(StatedReward(rating, history, visits))
              /\ state_action_counts'[t.state][t.intent] = visits + 1
              /\ Len(intent_success_rates'[t.intent]) =
                     (IF history = None THEN 0 ELSE Len(history[1])) + 1]_vars

\* A low rating has just been applied to a pair visited before, of an intent
\* rated before: the count and the history it found were not empty.
C29_Witness ==
    /\ Len(logged) = 2 /\ logged[2] = "INFO Recorded feedback"
    /\ LET t == recent_interactions[Len(recent_interactions)]
       IN  /\ t.feedback_score = Some(2)
           /\ state_action_counts[t.state][t.intent] = 2
           /\ Len(intent_success_rates[t.intent]) >= 2

-----------------------------------------------------------------------------
(* The key a feedback updates, checked under SpecClock *)

\* The key the command of interaction t has at the present hour.
KeyNow(t) ==
    get_state_features(t.command, None, hour)

\* C30: a recorded decision stores the key of its hour, and a feedback
\* updates the store under that stored key: when the time-of-day bucket has
\* changed in between, the pair of the stored key is the one updated and
\* counted and named in the feedback record, and the key of the hour of the
\* feedback gains no entry.
C30_StoredKey ==
    [][/\ interactions_file' # interactions_file =>
              LET t == recent_interactions'[Len(recent_interactions')]
              IN  t.state = KeyNow(t)
       /\ (AwaitingFeedback /\ feedback_file' # feedback_file) =>
              LET t == recent_interactions[Len(recent_interactions)]
              IN  /\ Pairs(q_table') = Pairs(q_table) \cup {<<t.state, t.intent>>}
                  /\ Pairs(state_action_counts') =
                         Pairs(state_action_counts) \cup {<<t.state, t.intent>>}
                  /\ state_action_counts'[t.state][t.intent] =
                         Get2(state_action_counts, t.state, t.intent, 0) + 1
                  /\ feedback_file'[1][Len(feedback_file'[1])].state = t.state
                  /\ KeyNow(t) # t.state =>
                         /\ KeyNow(t) \in DOMAIN q_table' <=> KeyNow(t) \in DOMAIN q_table
                         /\ KeyNow(t) \in DOMAIN q_table =>
                                q_table'[KeyNow(t)] = q_table[KeyNow(t)]]_vars

\* A feedback has just been applied to a decision recorded in another
\* time-of-day bucket: the stored key holds the entry, the present key none.
C30_Witness ==
    /\ Len(logged) = 2 /\ logged[1] = "INFO Updated Q-value"
    /\ LET t == recent_interactions[Len(recent_interactions)]
       IN  /\ KeyNow(t) # t.state
           /\ Has2(q_table, t.state, t.intent)
           /\ KeyNow(t) \notin DOMAIN q_table

====
